---- MODULE Spec2Model ----
(***************************************************************************)
(* A model of PureSpice, a SPICE client: the Main, Inputs and Playback     *)
(* channels of src/src/spice.c (and the Inputs injectors of                *)
(* src/src/channel_inputs.c, which are the same code on g_ps).             *)
(*                                                                         *)
(* The program state is the global `struct PS spice`; it is the variable   *)
(* spice.  The sockets are the variable io: what the last operation read,  *)
(* wrote and called back, and what the peer lets succeed.  hist holds what *)
(* an observer of the wire has counted since the session began.            *)
(*                                                                         *)
(* Every function of the source is an operator from a state record         *)
(* s = [spice, io, hist] to the state record it leaves, so that a handler  *)
(* is the composition of the functions it calls, in the source's order.    *)
(***************************************************************************)
EXTENDS Integers, Sequences, FiniteSets, TLC

VARIABLES spice, io, hist

vars == <<spice, io, hist>>

-----------------------------------------------------------------------------
(* Bounds of the model.                                                    *)

\* inbound messages dispatched in one session
MaxMsgs == 6
\* payload bytes of one inbound VD_AGENT_CLIPBOARD message
MaxClip == 3
\* frames pushed on the agent TX queue in one session
MaxEnq == 7
\* API calls made in one session
MaxCalls == 3
\* send sections entered by the threads in one session
MaxSections == 2

-----------------------------------------------------------------------------
(* Program constants.                                                      *)

VD_AGENT_MAX_DATA_SIZE == 2048
VD_AGENT_PROTOCOL == 1
SPICE_INPUT_MOTION_ACK_BUNCH == 4
SIZEOF_VDAgentMessage == 20
SIZEOF_Selection == 4
SIZEOF_uint32 == 4
SIZEOF_SpiceMsgPing == 12
SIZEOF_SpiceMsgSetAck == 8
SIZEOF_SpiceMsgMainInit == 32
SIZEOF_SpiceMsgInputsInit == 2
MAX_CAPS_MSG_SIZE == 1024
MOTION_MAX == 127
SCANCODE_EXT == 256
SCANCODE_E0 == 224
SCANCODE_RELEASE == 128
SCANCODE_E0_RELEASE == 32992
\* uint32_t arithmetic wraps at its modulus.  The integers of TLC are
\* 32 bits wide and signed, so the model's unsigned words are 30 bits wide:
\* they wrap at 2^30 as the build's wrap at 2^32, and every size, count and
\* code the model draws is far below either modulus
U32 == 1073741824
\* SPICE_AGENT_TOKENS_MAX is ~0
SPICE_AGENT_TOKENS_MAX == U32 - 1

Channels == {"scMain", "scInputs", "scPlayback"}

\* enum PSDataType, in the order of its declaration
PSDataTypes == {"TEXT", "PNG", "BMP", "TIFF", "JPEG", "NONE"}

\* VD_AGENT_CLIPBOARD_* type tags
VD_AGENT_CLIPBOARD_NONE == 0
VD_AGENT_CLIPBOARD_UTF8_TEXT == 1
VD_AGENT_CLIPBOARD_IMAGE_PNG == 2
VD_AGENT_CLIPBOARD_IMAGE_BMP == 3
VD_AGENT_CLIPBOARD_IMAGE_TIFF == 4
VD_AGENT_CLIPBOARD_IMAGE_JPG == 5

\* VD_AGENT_* message types
VD_AGENT_CLIPBOARD == 4
VD_AGENT_ANNOUNCE_CAPABILITIES == 6
VD_AGENT_CLIPBOARD_GRAB == 7
VD_AGENT_CLIPBOARD_REQUEST == 8
VD_AGENT_CLIPBOARD_RELEASE == 9

-----------------------------------------------------------------------------
(* Arithmetic of the C types.                                              *)

Min(a, b) == IF a < b THEN a ELSE b
Max(a, b) == IF a > b THEN a ELSE b
Abs(a) == IF a < 0 THEN -a ELSE a
ToU32(a) == a % U32

\* bitwise or of two naturals
RECURSIVE BitOr(_, _)
BitOr(a, b) ==
  IF a = 0 THEN b
  ELSE IF b = 0 THEN a
  ELSE 2 * BitOr(a \div 2, b \div 2) + (IF a % 2 = 1 \/ b % 2 = 1 THEN 1 ELSE 0)

Last(q) == q[Len(q)]

\* a local of a function: `T x = v;` and the statements K that follow it
Local(v, K(_)) == K(v)

-----------------------------------------------------------------------------
(* Frames and messages.                                                    *)

\* an outbound frame: its mini-header type and the fields of its body
Frame(type, fields) == [type |-> type, f |-> fields]

\* an inbound message: the mini-header {type, size}, the fixed fields of the
\* body and the variable-length bytes that follow them
Msg(type, size, fields, data) ==
  [a |-> fields, type |-> type, size |-> size, data |-> data]

\* the record of the last operation; io also holds what the operation did to
\* the sockets: sends (the send calls), calls (the callbacks), consumed (the
\* bytes read), epoll (the sockets registered with the epoll instance), shutWr
\* (the sockets shut down for writing), open (the sockets not closed), links
\* (the link handshakes run and how each ended), reads (the channel->read calls
\* of purespice_process) and errAt (which of them first returned
\* PS_STATUS_ERROR, 0 for none) and thr (where each thread stands in a send
\* section)
Op(name, ch, m) == [name |-> name, ch |-> ch, m |-> m]

NoMsg == Msg("-", 0, <<>>, <<>>)

-----------------------------------------------------------------------------
(* The state after construction: the zero-initialised global `spice`.      *)

InitChannel ==
  [connected |-> FALSE, ready |-> FALSE, initDone |-> FALSE,
   ackFrequency |-> 0, ackCount |-> 0, lock |-> FALSE]

InitSpice ==
  [sc              |-> [c \in Channels |-> InitChannel],
   hasAgent        |-> FALSE,
   serverTokens    |-> 0,
   sessionID       |-> 0,
   agentMsg        |-> 0,
   agentQueue      |-> <<>>,
   agentQueueAlloc |-> FALSE,
   kb              |-> [modifiers |-> 0],
   mouse           |-> [lock |-> FALSE, buttonState |-> 0, sentCount |-> 0],
   cbSupported     |-> FALSE,
   cbSelection     |-> FALSE,
   cbAgentGrabbed  |-> FALSE,
   cbClientGrabbed |-> FALSE,
   cbType          |-> "TEXT",
   cbBuffer        |-> <<>>,
   cbBufferAlloc   |-> FALSE,
   cbRemain        |-> 0,
   cbSize          |-> 0,
   cbNoticeFn      |-> FALSE,
   cbDataFn        |-> FALSE,
   cbReleaseFn     |-> FALSE,
   cbRequestFn     |-> FALSE,
   motionBufferAlloc |-> FALSE,
   motionBuffer      |-> <<>>,
   motionBufferSize  |-> 0,
   playback        |-> FALSE]

\* the plan of the peer for one operation: how many reads and sends succeed
\* before one fails (kind "OK": none fails)
NoFail ==
  [rdLeft |-> 0, rdKind |-> "OK", wrLeft |-> 0, wrFail |-> FALSE, link |-> <<>>]

\* the threads of the host: the one that calls purespice_process and two
\* that call the API
Threads == {"process", "host1", "host2"}

\* a thread that is in no send section
Idle == [ch |-> "-", pc |-> "idle", todo |-> <<>>]

InitIo ==
  [op       |-> Op("construct", "-", NoMsg),
   plan     |-> NoFail,
   sends    |-> <<>>,
   calls    |-> <<>>,
   st       |-> "OK",
   rv       |-> TRUE,
   consumed |-> 0,
   fault    |-> "-",
   epoll    |-> {},
   shutWr   |-> {},
   open     |-> {},
   links    |-> <<>>,
   reads    |-> 0,
   errAt    |-> 0,
   thr      |-> [t \in Threads |-> Idle]]

InitHist ==
  [calls     |-> 0,
   msgs      |-> 0,
   sections  |-> 0,
   enq       |-> 0,
   granted   |-> 0,
   agentWire |-> <<>>,
   rx        |-> [c \in Channels |-> -1],
   linked    |-> {},
   motion    |-> [rx |-> 0, acks |-> 0],
   srv       |-> [type |-> 0, active |-> FALSE, started |-> FALSE, n |-> 0,
                  sent |-> <<>>, frames |-> 0, cb |-> FALSE,
                  fired |-> 0, got |-> <<>>, gotType |-> "NONE"],
   base      |-> [enq |-> 0, tokens |-> 0, wire |-> 0, grants |-> <<>>, ok |-> FALSE]]

Init == spice = InitSpice /\ io = InitIo /\ hist = InitHist

Cur == [spice |-> spice, io |-> io, hist |-> hist]

Commit(s) == spice' = s.spice /\ io' = s.io /\ hist' = s.hist

\* the state in which an operation begins: nothing read, written or called yet
\* the observer notes the tokens and the counts whenever it sees the agent
\* queue empty between two operations
Begin(op, plan) ==
  [Cur EXCEPT !.io.op = op, !.io.plan = plan, !.io.sends = <<>>,
              !.io.calls = <<>>, !.io.st = "OK", !.io.rv = TRUE,
              !.io.consumed = 0, !.io.fault = "-",
              !.io.links = <<>>, !.io.reads = 0, !.io.errAt = 0,
              !.hist.base = IF spice.agentQueue = <<>>
                            THEN [enq |-> hist.enq, tokens |-> spice.serverTokens,
                                  wire |-> Len(hist.agentWire), grants |-> <<>>,
                                  ok |-> TRUE]
                            ELSE @]

\* the tokens the peer grants: counted, and logged against the packets
\* pushed since the queue was last seen empty
Grant(s, kind, n) ==
  [s EXCEPT !.hist.granted = @ + n,
            !.hist.base.grants =
               Append(@, <<kind, n, s.hist.enq - s.hist.base.enq>>)]

-----------------------------------------------------------------------------
(* Socket primitives.                                                      *)

\* send(2) of one buffer holding `frames` on the socket of channel c: one
\* entry of io.sends, written whole or not at all; locked records whether the
\* caller holds the channel's write lock at that moment;
\* a socket closed or shut down for writing takes nothing
send(s, c, frames) ==
  LET ok == /\ ~s.io.plan.wrFail \/ s.io.plan.wrLeft > 0
            /\ c \in s.io.open
            /\ c \notin s.io.shutWr
  IN [s EXCEPT !.io.sends = Append(@,
                  [ch |-> c, frames |-> frames,
                   ok |-> ok, locked |-> s.spice.sc[c].lock]),
               !.io.plan.wrLeft = IF @ > 0 THEN @ - 1 ELSE 0,
               !.io.rv = ok]

\* a bug: the lock is not taken
SPICE_LOCK_NotTaken(s, c) == s

SPICE_LOCK(s, c) == [s EXCEPT !.spice.sc[c].lock = TRUE]
SPICE_UNLOCK(s, c) == [s EXCEPT !.spice.sc[c].lock = FALSE]

\* SPICE_SEND_PACKET_NL: a single send of the packet, no locking; rv = wrote == *sz
SPICE_SEND_PACKET_NL(s, c, packet) == send(s, c, <<packet>>)

\* SPICE_SEND_PACKET: the same between SPICE_LOCK and SPICE_UNLOCK
SPICE_SEND_PACKET(s, c, packet) ==
  SPICE_UNLOCK(SPICE_SEND_PACKET_NL(SPICE_LOCK(s, c), c, packet), c)

\* one read(2) of the loop of readNL / discardNL, for `size` bytes in all
ReadBytes(s, c, size) ==
  IF s.io.plan.rdKind # "OK" /\ s.io.plan.rdLeft = 0
  THEN IF s.io.plan.rdKind = "NODATA"
       THEN [s EXCEPT !.io.st = "NODATA"]
       ELSE [s EXCEPT !.io.st = "ERROR", !.spice.sc[c].connected = FALSE]
  ELSE [s EXCEPT !.io.st = "OK",
                 !.io.consumed = @ + size,
                 !.io.plan.rdLeft = IF @ > 0 THEN @ - 1 ELSE 0]

\* purespice_readNL; buffer is FALSE for a NULL buffer
purespice_readNL(s, c, buffer, size) ==
  IF ~s.spice.sc[c].connected THEN [s EXCEPT !.io.st = "ERROR"]
  ELSE IF ~buffer THEN [s EXCEPT !.io.st = "ERROR"]
  ELSE IF size = 0 THEN [s EXCEPT !.io.st = "OK"]
  ELSE ReadBytes(s, c, size)

\* purespice_discardNL: while(left) never ends on a negative size but by the
\* end of the stream or an error of the socket
purespice_discardNL(s, c, size) ==
  IF size = 0 THEN [s EXCEPT !.io.st = "OK"]
  ELSE IF size < 0
  THEN IF s.io.plan.rdKind = "ERROR"
       THEN [s EXCEPT !.io.st = "ERROR", !.spice.sc[c].connected = FALSE]
       ELSE [s EXCEPT !.io.st = "NODATA", !.io.fault = "discard of a negative size"]
  ELSE ReadBytes(s, c, size)

-----------------------------------------------------------------------------
(* Ack accounting and the messages common to all channels.                 *)

\* purespice_processAck; rv is its result
purespice_processAck(s, c) ==
  LET ch == s.spice.sc[c] IN
  IF ch.ackFrequency = 0 THEN [s EXCEPT !.io.rv = TRUE]
  ELSE IF ch.ackCount # ch.ackFrequency
  THEN [s EXCEPT !.spice.sc[c].ackCount = ToU32(@ + 1), !.io.rv = TRUE]
  ELSE SPICE_SEND_PACKET([s EXCEPT !.spice.sc[c].ackCount = 0],
                         c, Frame("MSGC_ACK", <<0>>))

\* purespice_onCommonRead: st is OK when the channel's own switch must go on
purespice_onCommonRead(s, c, m) ==
  Local([purespice_readNL(s, c, TRUE, 6) EXCEPT !.io.consumed = s.io.consumed],
  LAMBDA s1 :
  IF s1.io.st # "OK" THEN s1
  ELSE IF ~s1.spice.sc[c].connected THEN [s1 EXCEPT !.io.st = "HANDLED"]
  ELSE IF ~s1.spice.sc[c].initDone THEN s1
  ELSE CASE m.type \in {"MIGRATE", "MIGRATE_DATA", "WAIT_FOR_CHANNELS"} ->
              [s1 EXCEPT !.io.st = "HANDLED"]
         [] m.type = "SET_ACK" ->
              Local(purespice_readNL(s1, c, TRUE, SIZEOF_SpiceMsgSetAck), LAMBDA s2 :
              IF s2.io.st # "OK" THEN s2
              ELSE Local(SPICE_SEND_PACKET(
                           [s2 EXCEPT !.spice.sc[c].ackFrequency = m.a[2]],
                           c, Frame("MSGC_ACK_SYNC", <<m.a[1]>>)),
                   LAMBDA s3 :
                   [s3 EXCEPT !.io.st = IF s3.io.rv THEN "HANDLED" ELSE "ERROR"]))
         [] m.type = "PING" ->
              Local(purespice_readNL(s1, c, TRUE, SIZEOF_SpiceMsgPing), LAMBDA s2 :
              IF s2.io.st # "OK" THEN s2
              ELSE Local(purespice_discardNL(s2, c, m.size - SIZEOF_SpiceMsgPing),
                   LAMBDA s3 :
                   IF s3.io.st # "OK" THEN s3
                   ELSE Local(SPICE_SEND_PACKET(s3, c,
                                Frame("MSGC_PONG", <<m.a[1], m.a[2]>>)),
                        LAMBDA s4 :
                        [s4 EXCEPT !.io.st = IF s4.io.rv THEN "HANDLED" ELSE "ERROR"])))
         [] m.type = "DISCONNECTING" ->
              [s1 EXCEPT !.io.shutWr = @ \cup {c}, !.io.st = "HANDLED"]
         [] m.type = "NOTIFY" ->
              Local(purespice_readNL(s1, c, TRUE, m.size), LAMBDA s2 :
              IF s2.io.st # "OK" THEN s2 ELSE [s2 EXCEPT !.io.st = "HANDLED"])
         [] OTHER -> s1)

-----------------------------------------------------------------------------
(* Link and disconnect.                                                    *)

\* purespice_disconnectChannel: connected is left as it is
purespice_disconnectChannel(s, c) ==
  IF ~s.spice.sc[c].connected THEN s
  ELSE [(IF s.spice.sc[c].ready
         THEN SPICE_SEND_PACKET(s, c, Frame("MSGC_DISCONNECTING", <<0>>))
         ELSE s)
          EXCEPT !.io.epoll = @ \ {c}, !.io.shutWr = @ \cup {c}]

\* purespice_disconnect; close(spice.epollfd) ends every registration
purespice_disconnect(s) ==
  [purespice_disconnectChannel(purespice_disconnectChannel(s, "scInputs"), "scMain")
     EXCEPT !.io.epoll = {},
            !.spice.motionBufferAlloc = FALSE,
            !.spice.agentQueue = <<>>,
            !.spice.agentQueueAlloc = FALSE,
            !.spice.hasAgent = FALSE]

\* purespice_ready
purespice_ready(s) ==
  s.spice.sc["scMain"].connected /\ s.spice.sc["scInputs"].connected

\* purespice_connectChannel: the blocking link handshake.  The peer's part is
\* the head of plan.link:
\*   "OK"        every step succeeds and the link result is SPICE_LINK_ERR_OK
\*   "NOCONNECT" connect(2) fails
\*   "LINKERR"   a write fails, the magic or the major version is bad, the
\*               reply is short, reply.error or the link result is not OK, or
\*               the password cannot be encrypted
\*   "LINKEOF"   a read meets the end of the stream
\*   "LINKRDERR" a read fails, which makes readNL clear connected
purespice_connectChannel(s, c) ==
  LET how == IF s.io.plan.link = <<>> THEN "OK" ELSE Head(s.io.plan.link) IN
  Local([s EXCEPT !.io.plan.link = IF @ = <<>> THEN @ ELSE Tail(@),
                  !.io.links = Append(@, [ch |-> c, how |-> how, id |-> s.spice.sessionID]),
                  !.io.open = @ \cup {c},
                  !.spice.sc[c].initDone = FALSE,
                  !.spice.sc[c].ackFrequency = 0,
                  !.spice.sc[c].ackCount = 0,
                  !.spice.sc[c].lock = FALSE,
                  !.spice.mouse.lock = IF c = "scInputs" THEN FALSE ELSE @],
  LAMBDA s0 :
  IF how = "NOCONNECT" THEN [s0 EXCEPT !.io.open = @ \ {c}, !.io.st = "ERROR"]
  ELSE Local([s0 EXCEPT !.spice.sc[c].connected = TRUE, !.io.shutWr = @ \ {c}],
       LAMBDA s1 :
       IF how = "OK"
       THEN [s1 EXCEPT !.io.epoll = @ \cup {c},
                       !.spice.sc[c].ready = TRUE,
                       !.io.st = "OK"]
       ELSE IF how = "LINKRDERR"
       THEN [purespice_disconnectChannel(
               [s1 EXCEPT !.spice.sc[c].connected = FALSE], c)
               EXCEPT !.io.st = "ERROR"]
       ELSE [purespice_disconnectChannel(s1, c) EXCEPT
               !.io.st = IF how = "LINKEOF" THEN "NODATA" ELSE "ERROR"]))

-----------------------------------------------------------------------------
(* The agent TX queue.                                                     *)

\* a bug: a token is granted without being counted
takeServerToken_Uncounted(s) ==
  IF ~s.spice.sc["scMain"].connected THEN [s EXCEPT !.io.rv = FALSE]
  ELSE [s EXCEPT !.io.rv = TRUE]

\* purespice_takeServerToken: rv tells whether a token was taken
purespice_takeServerToken(s) ==
  IF ~s.spice.sc["scMain"].connected THEN [s EXCEPT !.io.rv = FALSE]
  ELSE IF s.spice.serverTokens = 0 THEN [s EXCEPT !.io.rv = FALSE]
  ELSE [s EXCEPT !.spice.serverTokens = @ - 1, !.io.rv = TRUE]

\* the loop of purespice_agentProcessQueue, the Main write lock held
RECURSIVE agentProcessQueueLoop(_)
agentProcessQueueLoop(s) ==
  IF s.spice.agentQueue = <<>> THEN [s EXCEPT !.io.rv = TRUE]
  ELSE Local(purespice_takeServerToken(s), LAMBDA s1 :
       IF ~s1.io.rv THEN [s1 EXCEPT !.io.rv = TRUE]
       ELSE Local(SPICE_SEND_PACKET_NL([s1 EXCEPT !.spice.agentQueue = Tail(@)],
                                       "scMain", Head(s1.spice.agentQueue)),
            LAMBDA s2 :
            IF ~s2.io.rv THEN s2 ELSE agentProcessQueueLoop(s2)))

\* purespice_agentProcessQueue; peeking a queue that was never made, or was
\* freed, dereferences NULL
purespice_agentProcessQueue(s) ==
  IF ~s.spice.agentQueueAlloc
  THEN [s EXCEPT !.io.fault = "agentQueue is NULL", !.io.rv = FALSE]
  ELSE SPICE_UNLOCK(agentProcessQueueLoop(SPICE_LOCK(s, "scMain")), "scMain")

\* a packet of the queue: <<identity, 1 for a VDAgentMessage header and 0 for
\* a chunk, payload bytes, VDAgentMessage.type, VDAgentMessage.size>>
AgentPacket(s, hdr, bytes, type, size) ==
  Frame("MSGC_MAIN_AGENT_DATA", <<s.hist.enq + 1, hdr, bytes, type, size>>)

\* a bug: the packet is put at the head of the queue
queue_push_Front(s, packet) ==
  [s EXCEPT !.spice.agentQueue = <<packet>> \o @, !.hist.enq = @ + 1]

queue_push(s, packet) ==
  [s EXCEPT !.spice.agentQueue = Append(@, packet), !.hist.enq = @ + 1]

\* purespice_agentStartMsg
purespice_agentStartMsg(s, type, size) ==
  IF ~s.spice.agentQueueAlloc
  THEN [s EXCEPT !.io.fault = "agentQueue is NULL", !.io.rv = FALSE]
  ELSE purespice_agentProcessQueue(
         queue_push([s EXCEPT !.spice.agentMsg = size],
                    AgentPacket(s, 1, SIZEOF_VDAgentMessage, type, size)))

\* the chunking loop of purespice_agentWriteMsg
RECURSIVE agentWriteMsgLoop(_, _)
agentWriteMsgLoop(s, size) ==
  IF size = 0 THEN s
  ELSE Local(IF size > VD_AGENT_MAX_DATA_SIZE THEN VD_AGENT_MAX_DATA_SIZE ELSE size,
       LAMBDA toWrite :
       agentWriteMsgLoop(
         [queue_push(s, AgentPacket(s, 0, toWrite, 0, 0))
            EXCEPT !.spice.agentMsg = @ - toWrite],
         size - toWrite))

\* purespice_agentWriteMsg; assert(size <= spice.agentMsg) aborts the process
purespice_agentWriteMsg(s, size) ==
  IF size > s.spice.agentMsg
  THEN [s EXCEPT !.io.fault = "assert(size <= spice.agentMsg)", !.io.rv = FALSE]
  ELSE IF ~s.spice.agentQueueAlloc
  THEN [s EXCEPT !.io.fault = "agentQueue is NULL", !.io.rv = FALSE]
  ELSE purespice_agentProcessQueue(agentWriteMsgLoop(s, size))

\* sizeof(VDAgentAnnounceCapabilities) + VD_AGENT_CAPS_BYTES
capsSize == 8

\* purespice_agentSendCaps
purespice_agentSendCaps(s, request) ==
  IF ~s.spice.hasAgent THEN [s EXCEPT !.io.st = "ERROR"]
  ELSE Local(purespice_agentStartMsg(s, VD_AGENT_ANNOUNCE_CAPABILITIES, capsSize),
       LAMBDA s1 :
       IF ~s1.io.rv THEN [s1 EXCEPT !.io.st = "ERROR"]
       ELSE Local(purespice_agentWriteMsg(s1, capsSize), LAMBDA s2 :
            [s2 EXCEPT !.io.st = IF s2.io.rv THEN "OK" ELSE "ERROR"]))

\* purespice_agentConnect; the queue is made anew, which the observer notes
purespice_agentConnect(s) ==
  Local(SPICE_SEND_PACKET(
          [s EXCEPT !.spice.agentQueueAlloc = TRUE, !.spice.agentQueue = <<>>,
                    !.hist.base.ok = FALSE],
          "scMain", Frame("MSGC_MAIN_AGENT_START", <<SPICE_AGENT_TOKENS_MAX>>)),
  LAMBDA s1 :
  IF ~s1.io.rv THEN [s1 EXCEPT !.io.st = "ERROR"]
  ELSE Local(purespice_agentSendCaps([s1 EXCEPT !.spice.hasAgent = TRUE], TRUE),
       LAMBDA s2 :
       IF s2.io.st # "OK" THEN [s2 EXCEPT !.spice.hasAgent = FALSE] ELSE s2))

-----------------------------------------------------------------------------
(* The agent RX parser and the clipboard reassembler.                      *)

purespice_typeToAgentType(type) ==
  CASE type = "TEXT" -> VD_AGENT_CLIPBOARD_UTF8_TEXT
    [] type = "PNG"  -> VD_AGENT_CLIPBOARD_IMAGE_PNG
    [] type = "BMP"  -> VD_AGENT_CLIPBOARD_IMAGE_BMP
    [] type = "TIFF" -> VD_AGENT_CLIPBOARD_IMAGE_TIFF
    [] type = "JPEG" -> VD_AGENT_CLIPBOARD_IMAGE_JPG
    [] OTHER         -> VD_AGENT_CLIPBOARD_NONE

\* a bug: every type of the agent is taken for text
agent_type_AsText(type) == "TEXT"

agent_type_to_purespice_type(type) ==
  CASE type = VD_AGENT_CLIPBOARD_UTF8_TEXT  -> "TEXT"
    [] type = VD_AGENT_CLIPBOARD_IMAGE_PNG  -> "PNG"
    [] type = VD_AGENT_CLIPBOARD_IMAGE_BMP  -> "BMP"
    [] type = VD_AGENT_CLIPBOARD_IMAGE_TIFF -> "TIFF"
    [] type = VD_AGENT_CLIPBOARD_IMAGE_JPG  -> "JPEG"
    [] OTHER                                -> "NONE"

\* a callback of the host, called if it is registered
Callback(s, fn, type, data) ==
  IF s.spice[fn]
  THEN [s EXCEPT !.io.calls = Append(@, [type |-> type, data |-> data, fn |-> fn])]
  ELSE s

\* the bytes of a frame's body as the socket delivers them: a byte of a
\* structured prefix reads as -1
RawBody(m) ==
  [i \in 1 .. Max(0, m.size - Len(m.data)) |-> -1] \o m.data

\* a bug: the size handed to the callback is cbRemain, not cbSize
agentOnClipboard_WrongSize(s) ==
  [Callback(s, "cbDataFn", s.spice.cbType, SubSeq(s.spice.cbBuffer, 1, s.spice.cbRemain))
     EXCEPT !.spice.cbBuffer = <<>>, !.spice.cbBufferAlloc = FALSE,
            !.spice.cbSize = 0, !.spice.cbRemain = 0]

\* a bug: the buffer is handed over and kept
agentOnClipboard_Kept(s) ==
  Callback(s, "cbDataFn", s.spice.cbType, SubSeq(s.spice.cbBuffer, 1, s.spice.cbSize))

\* purespice_agentOnClipboard
purespice_agentOnClipboard(s) ==
  [Callback(s, "cbDataFn", s.spice.cbType, SubSeq(s.spice.cbBuffer, 1, s.spice.cbSize))
     EXCEPT !.spice.cbBuffer = <<>>, !.spice.cbBufferAlloc = FALSE,
            !.spice.cbSize = 0, !.spice.cbRemain = 0]

\* read r bytes `bytes` into cbBuffer + cbSize, as both arms of the
\* reassembler do; on a failed read the buffer is dropped
ClipboardFill(s, bytes, r) ==
  Local(purespice_readNL(s, "scMain", s.spice.cbBufferAlloc, r), LAMBDA s1 :
  IF s1.io.st # "OK"
  THEN [s1 EXCEPT !.spice.cbBuffer = <<>>, !.spice.cbBufferAlloc = FALSE,
                  !.spice.cbRemain = 0, !.spice.cbSize = 0]
  ELSE Local([s1 EXCEPT
                !.spice.cbBuffer =
                   SubSeq(@, 1, s1.spice.cbSize) \o SubSeq(bytes, 1, r),
                !.spice.cbRemain = ToU32(@ - r),
                !.spice.cbSize = ToU32(@ + r)],
       LAMBDA s2 :
       [(IF s2.spice.cbRemain = 0 THEN purespice_agentOnClipboard(s2) ELSE s2)
          EXCEPT !.io.st = "OK"]))

\* the VD_AGENT_CLIPBOARD* arm of purespice_agentProcess; msg is the
\* VDAgentMessage read, dataSize what the frame still carries
agentProcessClipboard(s, m, dataSize0) ==
  LET type == m.a[2]
      sel  == s.spice.cbSelection
      remaining1 == IF sel THEN ToU32(m.a[3] - SIZEOF_Selection) ELSE m.a[3]
      dataSize1  == IF sel THEN ToU32(dataSize0 - SIZEOF_Selection) ELSE dataSize0
      remaining  == ToU32(remaining1 - SIZEOF_uint32)
      dataSize   == ToU32(dataSize1 - SIZEOF_uint32)
  IN
  Local(IF sel THEN purespice_readNL(s, "scMain", TRUE, SIZEOF_Selection) ELSE s,
  LAMBDA s1 :
  IF s1.io.st # "OK" THEN s1
  ELSE IF type = VD_AGENT_CLIPBOARD_RELEASE
  THEN [Callback([s1 EXCEPT !.spice.cbAgentGrabbed = FALSE], "cbReleaseFn", "NONE", <<>>)
          EXCEPT !.io.st = "OK"]
  ELSE IF type \in {VD_AGENT_CLIPBOARD, VD_AGENT_CLIPBOARD_REQUEST}
  THEN Local(purespice_readNL(s1, "scMain", TRUE, SIZEOF_uint32), LAMBDA s2 :
       IF s2.io.st # "OK" THEN s2
       ELSE IF type = VD_AGENT_CLIPBOARD
       THEN IF s2.spice.cbBufferAlloc THEN [s2 EXCEPT !.io.st = "ERROR"]
            ELSE ClipboardFill(
                   [s2 EXCEPT !.spice.cbSize = 0,
                              !.spice.cbRemain = remaining,
                              !.spice.cbBuffer = <<>>,
                              !.spice.cbBufferAlloc = TRUE],
                   m.data,
                   IF remaining > dataSize THEN dataSize ELSE remaining)
       ELSE [Callback(s2, "cbRequestFn", agent_type_to_purespice_type(m.a[4]), <<>>)
               EXCEPT !.io.st = "OK"])
  ELSE IF remaining1 = 0 THEN [s1 EXCEPT !.io.st = "OK"]
  ELSE IF remaining1 > MAX_CAPS_MSG_SIZE THEN [s1 EXCEPT !.io.st = "ERROR"]
  ELSE Local(purespice_readNL(s1, "scMain", TRUE, remaining1), LAMBDA s2 :
       IF s2.io.st # "OK" THEN s2
       ELSE Local([s2 EXCEPT
                     !.spice.cbType = agent_type_to_purespice_type(m.data[1]),
                     !.spice.cbAgentGrabbed = TRUE,
                     !.spice.cbClientGrabbed = FALSE,
                     !.io.st = "OK"],
            LAMBDA s3 :
            IF s3.spice.cbSelection THEN s3
            ELSE Callback(s3, "cbNoticeFn", s3.spice.cbType, <<>>))))

\* purespice_agentProcess(dataSize = header.size)
purespice_agentProcess(s, m) ==
  IF s.spice.cbRemain # 0
  THEN ClipboardFill(s, RawBody(m),
         IF s.spice.cbRemain > m.size THEN m.size ELSE s.spice.cbRemain)
  ELSE Local(purespice_readNL(s, "scMain", TRUE, SIZEOF_VDAgentMessage), LAMBDA s1 :
       IF s1.io.st # "OK" THEN s1
       ELSE IF m.a[1] # VD_AGENT_PROTOCOL THEN [s1 EXCEPT !.io.st = "ERROR"]
       ELSE IF m.a[2] = VD_AGENT_ANNOUNCE_CAPABILITIES
       THEN IF m.a[3] > MAX_CAPS_MSG_SIZE THEN [s1 EXCEPT !.io.st = "ERROR"]
            ELSE Local(purespice_readNL(s1, "scMain", TRUE, m.a[3]), LAMBDA s2 :
                 IF s2.io.st # "OK" THEN s2
                 ELSE Local([s2 EXCEPT !.spice.cbSupported = m.a[5] > 0,
                                       !.spice.cbSelection = m.a[5] >= 2],
                      LAMBDA s3 :
                      IF m.a[4] # 0 THEN purespice_agentSendCaps(s3, FALSE)
                      ELSE [s3 EXCEPT !.io.st = "OK"]))
       ELSE IF m.a[2] \in {VD_AGENT_CLIPBOARD, VD_AGENT_CLIPBOARD_REQUEST,
                           VD_AGENT_CLIPBOARD_GRAB, VD_AGENT_CLIPBOARD_RELEASE}
       THEN agentProcessClipboard(s1, m, ToU32(m.size - SIZEOF_VDAgentMessage))
       ELSE purespice_discardNL(s1, "scMain", m.a[3]))

-----------------------------------------------------------------------------
(* The channels' message handlers.                                         *)

SPICE_MOUSE_MODE_SERVER == 1
SPICE_MOUSE_MODE_CLIENT == 2
SPICE_CHANNEL_INPUTS == 3
SPICE_CHANNEL_PLAYBACK == 5

\* purespice_mouseMode
purespice_mouseMode(s, server) ==
  IF ~s.spice.sc["scMain"].connected THEN [s EXCEPT !.io.rv = FALSE]
  ELSE SPICE_SEND_PACKET(s, "scMain",
         Frame("MSGC_MAIN_MOUSE_MODE_REQUEST",
               <<IF server THEN SPICE_MOUSE_MODE_SERVER ELSE SPICE_MOUSE_MODE_CLIENT>>))

\* `purespice_disconnect(); return status;`
DisconnectAnd(s, st) == [purespice_disconnect(s) EXCEPT !.io.st = st]

\* the SPICE_MSG_MAIN_INIT arm; m.a is <<session_id, current_mouse_mode,
\* agent_tokens, agent_connected>>
onMainInit(s, m) ==
  Local(purespice_readNL([s EXCEPT !.spice.sc["scMain"].initDone = TRUE],
                         "scMain", TRUE, SIZEOF_SpiceMsgMainInit),
  LAMBDA s1 :
  IF s1.io.st # "OK" THEN DisconnectAnd(s1, s1.io.st)
  ELSE Local(Grant([s1 EXCEPT !.spice.sessionID = m.a[1],
                              !.spice.serverTokens = m.a[3]],
                   "INIT", m.a[3]),
       LAMBDA s2 :
       Local(IF m.a[4] # 0 THEN purespice_agentConnect(s2) ELSE s2, LAMBDA s3 :
       IF s3.io.st # "OK" THEN DisconnectAnd(s3, s3.io.st)
       ELSE Local(IF m.a[2] # SPICE_MOUSE_MODE_CLIENT
                  THEN purespice_mouseMode(s3, FALSE)
                  ELSE [s3 EXCEPT !.io.rv = TRUE],
            LAMBDA s4 :
            IF ~s4.io.rv THEN [s4 EXCEPT !.io.st = "ERROR"]
            ELSE Local(SPICE_SEND_PACKET(s4, "scMain",
                         Frame("MSGC_MAIN_ATTACH_CHANNELS", <<>>)),
                 LAMBDA s5 :
                 IF ~s5.io.rv THEN DisconnectAnd(s5, "ERROR")
                 ELSE [s5 EXCEPT !.io.st = "OK"])))))

\* the loop of the SPICE_MSG_MAIN_CHANNELS_LIST arm over msg->channels[i..]
RECURSIVE onMainChannelsLoop(_, _)
onMainChannelsLoop(s, list) ==
  IF list = <<>> THEN [s EXCEPT !.io.st = "OK"]
  ELSE LET type == Head(list)
           c == IF type = SPICE_CHANNEL_INPUTS THEN "scInputs" ELSE "scPlayback"
           o == IF type = SPICE_CHANNEL_INPUTS THEN "scPlayback" ELSE "scInputs"
       IN
       IF type \notin {SPICE_CHANNEL_INPUTS, SPICE_CHANNEL_PLAYBACK}
          \/ (type = SPICE_CHANNEL_PLAYBACK /\ ~s.spice.playback)
       THEN onMainChannelsLoop(s, Tail(list))
       ELSE IF s.spice.sc[c].connected THEN DisconnectAnd(s, "ERROR")
       ELSE Local(purespice_connectChannel(s, c), LAMBDA s1 :
            IF s1.io.st # "OK" THEN DisconnectAnd(s1, s1.io.st)
            ELSE IF s1.spice.sc[o].connected THEN [s1 EXCEPT !.io.st = "OK"]
            ELSE onMainChannelsLoop(s1, Tail(list)))

\* purespice_onMainChannelRead
purespice_onMainChannelRead(s, m) ==
  Local(purespice_onCommonRead(s, "scMain", m), LAMBDA s1 :
  IF s1.io.st # "OK" THEN s1
  ELSE IF ~s1.spice.sc["scMain"].initDone
  THEN IF m.type # "MAIN_INIT" THEN DisconnectAnd(s1, "ERROR")
       ELSE onMainInit(s1, m)
  ELSE CASE m.type = "MAIN_CHANNELS_LIST" ->
              Local(purespice_readNL(s1, "scMain", TRUE, m.size), LAMBDA s2 :
              IF s2.io.st # "OK" THEN DisconnectAnd(s2, s2.io.st)
              ELSE onMainChannelsLoop(s2, m.data))
         [] m.type = "MAIN_AGENT_CONNECTED" ->
              Local(purespice_agentConnect(s1), LAMBDA s2 :
              IF s2.io.st # "OK" THEN DisconnectAnd(s2, s2.io.st) ELSE s2)
         [] m.type = "MAIN_AGENT_CONNECTED_TOKENS" ->
              Local(purespice_readNL(s1, "scMain", TRUE, SIZEOF_uint32), LAMBDA s2 :
              IF s2.io.st # "OK" THEN DisconnectAnd(s2, s2.io.st)
              ELSE Local(purespice_agentConnect(
                           Grant([s2 EXCEPT !.spice.serverTokens = m.a[1]],
                                 "CONNECTED_TOKENS", m.a[1])),
                   LAMBDA s3 :
                   IF s3.io.st # "OK" THEN DisconnectAnd(s3, s3.io.st) ELSE s3))
         [] m.type = "MAIN_AGENT_DISCONNECTED" ->
              Local(purespice_readNL(s1, "scMain", TRUE, SIZEOF_uint32), LAMBDA s2 :
              IF s2.io.st # "OK" THEN DisconnectAnd(s2, s2.io.st)
              ELSE IF s2.spice.cbBufferAlloc
              THEN [s2 EXCEPT !.spice.hasAgent = FALSE,
                              !.spice.cbBuffer = <<>>, !.spice.cbBufferAlloc = FALSE,
                              !.spice.cbSize = 0, !.spice.cbRemain = 0]
              ELSE [s2 EXCEPT !.spice.hasAgent = FALSE])
         [] m.type = "MAIN_AGENT_DATA" ->
              IF ~s1.spice.hasAgent THEN purespice_discardNL(s1, "scMain", m.size)
              ELSE Local(purespice_agentProcess(s1, m), LAMBDA s2 :
                   IF s2.io.st # "OK" THEN DisconnectAnd(s2, s2.io.st) ELSE s2)
         [] m.type = "MAIN_AGENT_TOKEN" ->
              Local(purespice_readNL(s1, "scMain", TRUE, SIZEOF_uint32), LAMBDA s2 :
              IF s2.io.st # "OK" THEN DisconnectAnd(s2, s2.io.st)
              ELSE Local(purespice_agentProcessQueue(
                           Grant([s2 EXCEPT !.spice.serverTokens = ToU32(@ + m.a[1])],
                                 "TOKEN", m.a[1])),
                   LAMBDA s3 :
                   IF ~s3.io.rv THEN DisconnectAnd(s3, "ERROR")
                   ELSE [s3 EXCEPT !.io.st = "OK"]))
         [] OTHER -> purespice_discardNL(s1, "scMain", m.size))

\* purespice_onInputsChannelRead (channelInputs_onRead)
purespice_onInputsChannelRead(s, m) ==
  Local(purespice_onCommonRead(s, "scInputs", m), LAMBDA s1 :
  IF s1.io.st # "OK" THEN s1
  ELSE CASE m.type = "INPUTS_INIT" ->
              IF s1.spice.sc["scInputs"].initDone THEN [s1 EXCEPT !.io.st = "ERROR"]
              ELSE purespice_readNL([s1 EXCEPT !.spice.sc["scInputs"].initDone = TRUE],
                                    "scInputs", TRUE, SIZEOF_SpiceMsgInputsInit)
         [] m.type = "INPUTS_KEY_MODIFIERS" ->
              Local(purespice_readNL(s1, "scInputs", TRUE, SIZEOF_SpiceMsgInputsInit),
              LAMBDA s2 :
              IF s2.io.st # "OK" THEN s2
              ELSE [s2 EXCEPT !.spice.kb.modifiers = m.a[1]])
         [] m.type = "INPUTS_MOUSE_MOTION_ACK" ->
              [s1 EXCEPT !.spice.mouse.sentCount = @ - SPICE_INPUT_MOTION_ACK_BUNCH,
                         !.io.st = IF s1.spice.mouse.sentCount >= SPICE_INPUT_MOTION_ACK_BUNCH
                                   THEN "OK" ELSE "ERROR"]
         [] OTHER -> purespice_discardNL(s1, "scInputs", m.size))

\* purespice_onPlaybackChannelRead; the host's audio sinks are outside the model
purespice_onPlaybackChannelRead(s, m) ==
  Local(purespice_onCommonRead(s, "scPlayback", m), LAMBDA s1 :
  IF s1.io.st # "OK" THEN s1
  ELSE CASE m.type \in {"PLAYBACK_START", "PLAYBACK_DATA", "PLAYBACK_VOLUME",
                         "PLAYBACK_MUTE"} ->
              purespice_readNL(s1, "scPlayback", TRUE, m.size)
         [] m.type = "PLAYBACK_STOP" -> s1
         [] OTHER -> purespice_discardNL(s1, "scPlayback", m.size))

\* channel->read
ChannelRead(s, c, m) ==
  CASE c = "scMain"     -> purespice_onMainChannelRead(s, m)
    [] c = "scInputs"   -> purespice_onInputsChannelRead(s, m)
    [] c = "scPlayback" -> purespice_onPlaybackChannelRead(s, m)

\* a bug: no status ends the loop
ReturnsFalse_Never(st) == FALSE

\* the `default:` arm of the switch on the status of channel->read
ReturnsFalse(st) == st \notin {"OK", "HANDLED", "NODATA"}

\* one turn of `while(dataAvailable > 0)` on channel c, the next message of
\* its socket being m: the read, the switch on its status, then the ack
\* accounting.  rv = FALSE is `return false`.
processTurn(s, c, m) ==
  Local(ChannelRead([s EXCEPT !.io.reads = @ + 1], c, m), LAMBDA s0 :
  Local([s0 EXCEPT !.io.errAt = IF @ = 0 /\ s0.io.st = "ERROR" THEN s0.io.reads ELSE @],
  LAMBDA s1 :
  IF ReturnsFalse(s1.io.st) THEN [s1 EXCEPT !.io.rv = FALSE]
  ELSE Local(IF s1.io.st = "NODATA"
             THEN [s1 EXCEPT !.spice.sc[c].connected = FALSE,
                             !.io.epoll = @ \ {c}, !.io.open = @ \ {c}]
             ELSE s1,
       LAMBDA s2 :
       IF s2.spice.sc[c].connected
       THEN purespice_processAck(s2, c)
       ELSE [s2 EXCEPT !.io.rv = TRUE])))

\* `while(dataAvailable > 0)`: the messages msgs wait on the socket of c;
\* PS_STATUS_NODATA sets dataAvailable to 0
RECURSIVE processChannel(_, _, _)
processChannel(s, c, msgs) ==
  IF msgs = <<>> THEN [s EXCEPT !.io.rv = TRUE]
  ELSE Local(processTurn(s, c, Head(msgs)), LAMBDA s1 :
       IF ~s1.io.rv \/ s1.io.st = "NODATA" THEN s1
       ELSE processChannel(s1, c, Tail(msgs)))

\* `for(i < nfds)`: evs are the events of epoll_wait, each the channel and
\* the messages its socket holds; a socket readable with nothing to read has
\* been closed by the peer
RECURSIVE processEvents(_, _)
processEvents(s, evs) ==
  IF evs = <<>> THEN [s EXCEPT !.io.rv = TRUE]
  ELSE Local(IF Head(evs).msgs = <<>>
             THEN [s EXCEPT !.spice.sc[Head(evs).ch].connected = FALSE, !.io.rv = TRUE]
             ELSE processChannel(s, Head(evs).ch, Head(evs).msgs),
       LAMBDA s1 :
       IF ~s1.io.rv THEN s1 ELSE processEvents(s1, Tail(evs)))

\* the end of purespice_process: the session is shut down once neither the
\* Main nor the Inputs channel is connected
processShutdown(s) ==
  IF s.spice.sc["scMain"].connected \/ s.spice.sc["scInputs"].connected
  THEN [s EXCEPT !.io.rv = TRUE]
  ELSE [s EXCEPT !.spice.sessionID = 0,
                 !.spice.cbBuffer = <<>>, !.spice.cbBufferAlloc = FALSE,
                 !.spice.cbRemain = 0, !.spice.cbSize = 0,
                 !.spice.cbAgentGrabbed = FALSE, !.spice.cbClientGrabbed = FALSE,
                 !.io.rv = FALSE]

\* purespice_process when epoll_wait reports the events evs
purespice_processEvents(s, evs) ==
  IF evs = <<>> THEN [s EXCEPT !.io.rv = TRUE]
  ELSE Local(processEvents(s, evs), LAMBDA s1 :
       IF ~s1.io.rv THEN s1 ELSE processShutdown(s1))

\* purespice_process when epoll_wait reports channel c alone, its socket
\* holding the one message m
purespice_process(s, c, m) ==
  purespice_processEvents(s, <<[ch |-> c, msgs |-> <<m>>]>>)

-----------------------------------------------------------------------------
(* The injectors of the Inputs channel.                                    *)

\* purespice_keyDown
purespice_keyDown(s, code) ==
  IF ~s.spice.sc["scInputs"].connected THEN [s EXCEPT !.io.rv = FALSE]
  ELSE SPICE_SEND_PACKET(s, "scInputs",
         Frame("MSGC_INPUTS_KEY_DOWN",
               <<IF code > SCANCODE_EXT
                 THEN BitOr(SCANCODE_E0, ToU32((code - SCANCODE_EXT) * 256))
                 ELSE code>>))

\* purespice_keyUp
purespice_keyUp(s, code) ==
  IF ~s.spice.sc["scInputs"].connected THEN [s EXCEPT !.io.rv = FALSE]
  ELSE SPICE_SEND_PACKET(s, "scInputs",
         Frame("MSGC_INPUTS_KEY_UP",
               <<IF code < SCANCODE_EXT
                 THEN BitOr(code, SCANCODE_RELEASE)
                 ELSE BitOr(SCANCODE_E0_RELEASE, ToU32((code - SCANCODE_EXT) * 256))>>))

\* purespice_keyModifiers
purespice_keyModifiers(s, modifiers) ==
  IF ~s.spice.sc["scInputs"].connected THEN [s EXCEPT !.io.rv = FALSE]
  ELSE SPICE_SEND_PACKET(s, "scInputs",
         Frame("MSGC_INPUTS_KEY_MODIFIERS", <<modifiers>>))

MOUSE_LOCK(s) == [s EXCEPT !.spice.mouse.lock = TRUE]
MOUSE_UNLOCK(s) == [s EXCEPT !.spice.mouse.lock = FALSE]

\* a bug: the position packets are not counted
mousePosition_Uncounted(s, x, y) ==
  IF ~s.spice.sc["scInputs"].connected THEN [s EXCEPT !.io.rv = FALSE]
  ELSE SPICE_SEND_PACKET(
         MOUSE_UNLOCK(MOUSE_LOCK(s)),
         "scInputs",
         Frame("MSGC_INPUTS_MOUSE_POSITION", <<x, y, s.spice.mouse.buttonState, 0>>))

\* purespice_mousePosition
purespice_mousePosition(s, x, y) ==
  IF ~s.spice.sc["scInputs"].connected THEN [s EXCEPT !.io.rv = FALSE]
  ELSE SPICE_SEND_PACKET(
         [MOUSE_UNLOCK(MOUSE_LOCK(s)) EXCEPT !.spice.mouse.sentCount = @ + 1],
         "scInputs",
         Frame("MSGC_INPUTS_MOUSE_POSITION", <<x, y, s.spice.mouse.buttonState, 0>>))

\* a bug: the clamp is one-sided
Clamp_Upper(x) == IF x > MOTION_MAX THEN MOTION_MAX ELSE x

\* m->x = x > 127 ? 127 : (x < -127 ? -127 : x)
Clamp(x) == IF x > MOTION_MAX THEN MOTION_MAX
            ELSE IF x < -MOTION_MAX THEN -MOTION_MAX ELSE x

\* the loop of purespice_mouseMotion that fills the motion buffer
RECURSIVE MotionFill(_, _, _)
MotionFill(x, y, buttonState) ==
  IF x = 0 /\ y = 0 THEN <<>>
  ELSE <<Frame("MSGC_INPUTS_MOUSE_MOTION", <<Clamp(x), Clamp(y), buttonState>>)>>
       \o MotionFill(x - Clamp(x), y - Clamp(y), buttonState)

\* purespice_mouseMotion; the size of the motion buffer is counted in
\* messages (a mini-header and a SpiceMsgcMouseMotion each)
purespice_mouseMotion(s, x, y) ==
  IF ~s.spice.sc["scInputs"].connected THEN [s EXCEPT !.io.rv = FALSE]
  ELSE LET delta == IF Abs(x) > Abs(y) THEN Abs(x) ELSE Abs(y)
           msgs  == (delta + (MOTION_MAX - 1)) \div MOTION_MAX
       IN
       IF msgs = 1
       THEN SPICE_SEND_PACKET(
              [MOUSE_UNLOCK(MOUSE_LOCK(s)) EXCEPT !.spice.mouse.sentCount = @ + 1],
              "scInputs",
              Frame("MSGC_INPUTS_MOUSE_MOTION", <<x, y, s.spice.mouse.buttonState>>))
       ELSE Local(IF msgs > s.spice.motionBufferSize
                  THEN [s EXCEPT !.spice.motionBufferAlloc = TRUE,
                                 !.spice.motionBufferSize = msgs]
                  ELSE s,
            LAMBDA s1 :
            SPICE_UNLOCK(
              send(SPICE_LOCK(
                     [MOUSE_UNLOCK(MOUSE_LOCK(s1)) EXCEPT
                        !.spice.mouse.sentCount = @ + msgs,
                        !.io.fault = IF msgs > 0 /\ ~s1.spice.motionBufferAlloc
                                     THEN "motionBuffer is NULL" ELSE @],
                     "scInputs"),
                   "scInputs", MotionFill(x, y, s1.spice.mouse.buttonState)),
              "scInputs"))

HasBit(v, mask) == (v \div mask) % 2 = 1

\* SPICE_MOUSE_BUTTON_* to SPICE_MOUSE_BUTTON_MASK_*; 0 for any other button
ButtonMask(button) ==
  CASE button = 1 -> 1
    [] button = 2 -> 2
    [] button = 3 -> 4
    [] button = 6 -> 32
    [] button = 7 -> 64
    [] OTHER -> 0

\* purespice_mousePress
purespice_mousePress(s, button) ==
  IF ~s.spice.sc["scInputs"].connected THEN [s EXCEPT !.io.rv = FALSE]
  ELSE LET state == BitOr(s.spice.mouse.buttonState, ButtonMask(button)) IN
       SPICE_SEND_PACKET(
         MOUSE_UNLOCK([MOUSE_LOCK(s) EXCEPT !.spice.mouse.buttonState = state]),
         "scInputs", Frame("MSGC_INPUTS_MOUSE_PRESS", <<button, state>>))

\* purespice_mouseRelease
purespice_mouseRelease(s, button) ==
  IF ~s.spice.sc["scInputs"].connected THEN [s EXCEPT !.io.rv = FALSE]
  ELSE LET mask  == ButtonMask(button)
           old   == s.spice.mouse.buttonState
           state == IF mask > 0 /\ HasBit(old, mask) THEN old - mask ELSE old
       IN SPICE_SEND_PACKET(
            MOUSE_UNLOCK([MOUSE_LOCK(s) EXCEPT !.spice.mouse.buttonState = state]),
            "scInputs", Frame("MSGC_INPUTS_MOUSE_RELEASE", <<button, state>>))

-----------------------------------------------------------------------------
(* The clipboard API.                                                      *)

\* purespice_setClipboardCb; the arguments tell which pointers are not NULL
purespice_setClipboardCb(s, notice, data, release, request) ==
  IF (notice /\ ~data) \/ (data /\ ~notice) THEN [s EXCEPT !.io.rv = FALSE]
  ELSE [s EXCEPT !.spice.cbNoticeFn = notice, !.spice.cbDataFn = data,
                 !.spice.cbReleaseFn = release, !.spice.cbRequestFn = request,
                 !.io.rv = TRUE]

\* `agentStartMsg(type, size) && agentWriteMsg(buffer, wsize)`
StartAndWrite(s, type, size, wsize) ==
  Local(purespice_agentStartMsg(s, type, size), LAMBDA s1 :
  IF ~s1.io.rv THEN s1 ELSE purespice_agentWriteMsg(s1, wsize))

\* purespice_clipboardRequest
purespice_clipboardRequest(s, type) ==
  IF ~s.spice.hasAgent \/ ~s.spice.cbAgentGrabbed \/ type # s.spice.cbType
  THEN [s EXCEPT !.io.rv = FALSE]
  ELSE StartAndWrite(s, VD_AGENT_CLIPBOARD_REQUEST, SIZEOF_uint32, SIZEOF_uint32)

\* purespice_clipboardGrab(types, count)
purespice_clipboardGrab(s, types) ==
  IF ~s.spice.hasAgent \/ Len(types) = 0 THEN [s EXCEPT !.io.rv = FALSE]
  ELSE LET size == (IF s.spice.cbSelection THEN SIZEOF_Selection ELSE 0)
                   + Len(types) * SIZEOF_uint32
       IN Local(StartAndWrite(s, VD_AGENT_CLIPBOARD_GRAB, size, size), LAMBDA s1 :
          IF ~s1.io.rv THEN s1 ELSE [s1 EXCEPT !.spice.cbClientGrabbed = TRUE])

\* purespice_clipboardRelease
purespice_clipboardRelease(s) ==
  IF ~s.spice.hasAgent THEN [s EXCEPT !.io.rv = FALSE]
  ELSE IF ~s.spice.cbClientGrabbed THEN [s EXCEPT !.io.rv = TRUE]
  ELSE Local(IF s.spice.cbSelection
             THEN StartAndWrite(s, VD_AGENT_CLIPBOARD_RELEASE,
                                SIZEOF_Selection, SIZEOF_Selection)
             ELSE purespice_agentStartMsg(s, VD_AGENT_CLIPBOARD_RELEASE, 0),
       LAMBDA s1 :
       IF ~s1.io.rv THEN s1 ELSE [s1 EXCEPT !.spice.cbClientGrabbed = FALSE])

\* purespice_clipboardDataStart
purespice_clipboardDataStart(s, type, size) ==
  IF ~s.spice.hasAgent THEN [s EXCEPT !.io.rv = FALSE]
  ELSE LET bufSize == IF s.spice.cbSelection
                      THEN SIZEOF_Selection + SIZEOF_uint32 ELSE SIZEOF_uint32
       IN StartAndWrite(s, VD_AGENT_CLIPBOARD, bufSize + size, bufSize)

\* purespice_clipboardData
purespice_clipboardData(s, size) ==
  IF ~s.spice.hasAgent THEN [s EXCEPT !.io.rv = FALSE]
  ELSE purespice_agentWriteMsg(s, size)

\* purespice_connect: the link of the Main channel
purespice_connect(s, playback) ==
  Local(purespice_connectChannel([s EXCEPT !.spice.playback = playback,
                                           !.io.epoll = {}], "scMain"),
  LAMBDA s1 : [s1 EXCEPT !.io.rv = (s1.io.st = "OK")])

-----------------------------------------------------------------------------
(* What the observer of the sockets records when an operation ends.        *)

\* the frames of channel c that reached the wire in the sends `sends`
RECURSIVE Wire(_, _)
Wire(sends, c) ==
  IF sends = <<>> THEN <<>>
  ELSE (IF Head(sends).ch = c /\ Head(sends).ok THEN Head(sends).frames ELSE <<>>)
       \o Wire(Tail(sends), c)

\* the send calls made on channel c
SendsOn(sends, c) == SelectSeq(sends, LAMBDA e : e.ch = c)

OfType(frames, type) == SelectSeq(frames, LAMBDA f : f.type = type)

\* the identities of the agent packets among the frames
RECURSIVE Ids(_)
Ids(frames) == IF frames = <<>> THEN <<>> ELSE <<Head(frames).f[1]>> \o Ids(Tail(frames))

AllOk(sends) == \A i \in 1 .. Len(sends) : sends[i].ok

DataCalls(calls) == SelectSeq(calls, LAMBDA e : e.fn = "cbDataFn")

\* the peer's clipboard message in flight, after the operation of s
SrvAfter(s) ==
  LET m == s.io.op.m
      old == s.hist.srv
  IN
  Local(DataCalls(s.io.calls), LAMBDA data :
  LET fired == Len(data)
      got == IF fired > 0 THEN Last(data).data ELSE old.got
      gotType == IF fired > 0 THEN Last(data).type ELSE old.gotType
      \* VDAgentMessage.size less the selection and the type words
      n == m.a[3] - SIZEOF_uint32
             - (IF s.spice.cbSelection THEN SIZEOF_Selection ELSE 0)
  IN
  IF s.io.op.name # "process" \/ s.io.op.ch # "scMain" THEN old
  ELSE IF s.io.st \notin {"OK", "HANDLED"} \/ m.type = "MAIN_AGENT_DISCONNECTED"
  THEN [old EXCEPT !.active = FALSE, !.started = FALSE]
  ELSE IF m.type # "MAIN_AGENT_DATA" THEN old
  ELSE IF m.a # <<>> /\ m.a[2] = VD_AGENT_CLIPBOARD /\ ~old.active
  THEN [type |-> m.a[4], active |-> Len(m.data) < n, started |-> TRUE,
        n |-> n, sent |-> m.data, frames |-> 1, cb |-> s.spice.cbDataFn,
        fired |-> fired, got |-> got, gotType |-> gotType]
  ELSE IF m.a = <<>> /\ old.active
  THEN [old EXCEPT !.sent = @ \o m.data,
                   !.active = Len(old.sent) + Len(m.data) < old.n,
                   !.frames = @ + 1, !.cb = s.spice.cbDataFn,
                   !.fired = @ + fired, !.got = got, !.gotType = gotType]
  ELSE old)

\* the channels whose last link handshake ended with SPICE_LINK_ERR_OK
RECURSIVE LinkedAfter(_, _)
LinkedAfter(linked, links) ==
  IF links = <<>> THEN linked
  ELSE LinkedAfter(IF Head(links).how = "OK" THEN linked \cup {Head(links).ch}
                   ELSE linked \ {Head(links).ch},
                   Tail(links))

\* the pointer packets the peer has received on the Inputs channel, and the
\* MOUSE_MOTION_ACKs of it that the client has processed
MotionAfter(s) ==
  LET wire == Wire(s.io.sends, "scInputs")
      got  == Len(OfType(wire, "MSGC_INPUTS_MOUSE_MOTION"))
                + Len(OfType(wire, "MSGC_INPUTS_MOUSE_POSITION"))
      ack  == /\ s.io.op.name = "process"
              /\ s.io.op.ch = "scInputs"
              /\ s.io.op.m.type = "INPUTS_MOUSE_MOTION_ACK"
              /\ AllOk(s.io.sends)
  IN [rx   |-> s.hist.motion.rx + got,
      acks |-> s.hist.motion.acks + (IF ack THEN 1 ELSE 0)]

\* the end of an operation
End(s) ==
  LET sent == Ids(OfType(Wire(s.io.sends, "scMain"), "MSGC_MAIN_AGENT_DATA"))
      proc == s.io.op.name = "process"
      c    == s.io.op.ch
      rdr  == proc \/ s.io.op.name \in {"processEvents", "connect"}
  IN [s EXCEPT
        !.io.plan = NoFail,
        !.hist.msgs = IF proc \/ s.io.op.name = "processEvents" THEN @ + 1 ELSE @,
        !.hist.calls = IF rdr THEN @ ELSE @ + 1,
        !.hist.agentWire = @ \o sent,
        !.hist.linked = LinkedAfter(@, s.io.links),
        !.hist.motion = MotionAfter(s),
        !.hist.rx = IF ~proc THEN @
                    ELSE IF s.io.op.m.type = "SET_ACK"
                    THEN [@ EXCEPT ![c] = IF s.io.st = "HANDLED" THEN 0 ELSE -1]
                    ELSE IF s.io.st \in {"OK", "HANDLED"} /\ @[c] >= 0
                    THEN [@ EXCEPT ![c] = @ + 1]
                    ELSE @,
        !.hist.srv = SrvAfter(s),
        !.hist.base.ok = @ /\ AllOk(s.io.sends) /\ s.io.fault = "-"]

-----------------------------------------------------------------------------
(* The peer's messages and the operations of a session.                    *)

MsgMainInit(tokens, agent) ==
  Msg("MAIN_INIT", SIZEOF_SpiceMsgMainInit,
      <<7, SPICE_MOUSE_MODE_SERVER, tokens, agent>>, <<>>)

MsgChannelsList(list) ==
  Msg("MAIN_CHANNELS_LIST", SIZEOF_uint32 + 2 * Len(list), <<>>, list)

MsgInputsInit == Msg("INPUTS_INIT", SIZEOF_SpiceMsgInputsInit, <<0>>, <<>>)

MsgSetAck(generation, window) ==
  Msg("SET_ACK", SIZEOF_SpiceMsgSetAck, <<generation, window>>, <<>>)

MsgPing(id, timestamp, extra) ==
  Msg("PING", SIZEOF_SpiceMsgPing + extra, <<id, timestamp>>, <<>>)

MsgNotify == Msg("NOTIFY", 25, <<>>, <<>>)

MsgU32(type, n) == Msg(type, SIZEOF_uint32, <<n>>, <<>>)

MsgKeyModifiers(modifiers) ==
  Msg("INPUTS_KEY_MODIFIERS", SIZEOF_SpiceMsgInputsInit, <<modifiers>>, <<>>)

MsgMotionAck == Msg("INPUTS_MOUSE_MOTION_ACK", 0, <<>>, <<>>)

\* MSG_MAIN_AGENT_DATA opening a VDAgentMessage{protocol, type, size} whose
\* body begins with x (and y); body is the count of the bytes of the
\* VDAgentMessage body this frame carries, data the last of them
MsgAgentData(vdType, vdSize, x, y, data, body) ==
  Msg("MAIN_AGENT_DATA", SIZEOF_VDAgentMessage + body,
      <<VD_AGENT_PROTOCOL, vdType, vdSize, x, y>>, data)

\* the selection word precedes the body once the capability is agreed
SelLen == IF spice.cbSelection THEN SIZEOF_Selection ELSE 0

MsgAnnounce(request, caps) ==
  MsgAgentData(VD_AGENT_ANNOUNCE_CAPABILITIES, capsSize, request, caps, <<>>, capsSize)

MsgGrab(types) ==
  MsgAgentData(VD_AGENT_CLIPBOARD_GRAB, SelLen + SIZEOF_uint32 * Len(types), 0, 0,
               types, SelLen + SIZEOF_uint32 * Len(types))

\* VD_AGENT_CLIPBOARD of n bytes of the type, the first frame carrying bytes
MsgClipboard(type, n, bytes) ==
  MsgAgentData(VD_AGENT_CLIPBOARD, SelLen + SIZEOF_uint32 + n, type, 0,
               bytes, SelLen + SIZEOF_uint32 + Len(bytes))

\* a following MSG_MAIN_AGENT_DATA carrying more bytes of it
MsgClipboardMore(bytes) == Msg("MAIN_AGENT_DATA", Len(bytes), <<>>, bytes)

\* the k bytes of a clipboard that follow its first `from` bytes: the bytes
\* of a payload are all different, so that a byte lost, repeated or out of
\* place shows
Slice(from, k) == [i \in 1 .. k |-> from + i]

\* the peer lets every read and every send of the operation succeed, or
\* fails the first send, or ends or breaks the stream at the first read of
\* the body
WrFail == [NoFail EXCEPT !.wrFail = TRUE]
RdFail(kind) == [NoFail EXCEPT !.rdKind = kind, !.rdLeft = 1]

\* purespice_connect(host, port, password, playback) of a fresh session
Connect(playbacks, links) ==
  /\ io.op.name = "construct"
  /\ \E playback \in playbacks, how \in links :
       Commit(End(purespice_connect(
         Begin(Op("connect", "scMain", NoMsg), [NoFail EXCEPT !.link = <<how>>]),
         playback)))

\* epoll reports the socket of channel c readable and purespice_process
\* reads the message m from it
Dispatch(c, m, plan) ==
  /\ c \in io.epoll
  /\ spice.sc[c].connected
  /\ io.fault = "-"
  /\ hist.msgs < MaxMsgs
  /\ Commit(End(purespice_process(Begin(Op("process", c, m), plan), c, m)))

\* epoll reports the sockets of the events evs readable in one
\* purespice_process
DispatchEvents(evs, plan) ==
  /\ \A i \in 1 .. Len(evs) : evs[i].ch \in io.epoll /\ spice.sc[evs[i].ch].connected
  /\ io.fault = "-"
  /\ hist.msgs < MaxMsgs
  /\ Commit(End(purespice_processEvents(
        Begin(Op("processEvents", "-", Msg("-", 0, <<>>, evs)), plan), evs)))

\* a call of the API made by the host; s is the state the call leaves
Call(s) ==
  /\ io.op.name # "construct"
  /\ io.fault = "-"
  /\ hist.calls < MaxCalls
  /\ Commit(End(s))

-----------------------------------------------------------------------------
(* SpecInputs: a session whose Inputs channel carries the host's keys and  *)
(* mouse.                                                                  *)

\* relative motions around the multiples of 127
Deltas == {-300, -128, -127, 0, 1, 127, 200, 255}

\* scancodes around 0x100
Codes == {0, 1, 30, 127, 128, 255, 256, 257, 328, 511}

Buttons == {1, 3}

InConnect == Connect({FALSE}, {"OK", "NOCONNECT"})

\* the peer opens the Main channel with its INIT
InMainInit ==
  /\ ~spice.sc["scMain"].initDone
  /\ Dispatch("scMain", MsgMainInit(0, 0), NoFail)

\* and answers ATTACH_CHANNELS once
InChannelsList ==
  /\ spice.sc["scMain"].initDone
  /\ ~spice.sc["scInputs"].connected
  /\ \E how \in {"OK", "LINKERR"} :
       Dispatch("scMain", MsgChannelsList(<<SPICE_CHANNEL_INPUTS>>),
                [NoFail EXCEPT !.link = <<how>>])

InInputsInit ==
  /\ ~spice.sc["scInputs"].initDone
  /\ Dispatch("scInputs", MsgInputsInit, NoFail)

InMouseMotion ==
  \E x \in Deltas, y \in Deltas, plan \in {NoFail, WrFail} :
    Call(purespice_mouseMotion(Begin(Op("mouseMotion", "scInputs",
           Msg("-", 0, <<x, y>>, <<>>)), plan), x, y))

InMousePress ==
  \E b \in Buttons :
    Call(purespice_mousePress(Begin(Op("mousePress", "scInputs",
           Msg("-", 0, <<b>>, <<>>)), NoFail), b))

InMouseRelease ==
  \E b \in Buttons :
    Call(purespice_mouseRelease(Begin(Op("mouseRelease", "scInputs",
           Msg("-", 0, <<b>>, <<>>)), NoFail), b))

InKeyDown ==
  \E code \in Codes, plan \in {NoFail, WrFail} :
    Call(purespice_keyDown(Begin(Op("keyDown", "scInputs",
           Msg("-", 0, <<code>>, <<>>)), plan), code))

InKeyUp ==
  \E code \in Codes, plan \in {NoFail, WrFail} :
    Call(purespice_keyUp(Begin(Op("keyUp", "scInputs",
           Msg("-", 0, <<code>>, <<>>)), plan), code))

NextInputs ==
  \/ InConnect
  \/ InMainInit
  \/ InChannelsList
  \/ InInputsInit
  \/ InMouseMotion
  \/ InMousePress
  \/ InMouseRelease
  \/ InKeyDown
  \/ InKeyUp

SpecInputs == Init /\ [][NextInputs]_vars

-----------------------------------------------------------------------------
(* Claims on the Inputs injectors, under SpecInputs.                       *)

\* the sum of component i of the frames
RECURSIVE SumOf(_, _)
SumOf(frames, i) ==
  IF frames = <<>> THEN 0 ELSE Head(frames).f[i] + SumOf(Tail(frames), i)

CeilDiv(a, b) == (a + b - 1) \div b

\* C6: a mouseMotion(dx, dy) made on a connected Inputs channel whose send
\* succeeds puts exactly ceil(max(|dx|, |dy|) / 127) MOUSE_MOTION sub-motions
\* on the wire, each component of each within [-127, 127], their
\* component-wise sum (dx, dy), and raises sentCount by their number.
C6_MotionSplit ==
  [][(/\ io'.op.name = "mouseMotion"
      /\ spice.sc["scInputs"].connected
      /\ AllOk(io'.sends) /\ io'.fault = "-")
     => LET dx == io'.op.m.a[1]
            dy == io'.op.m.a[2]
            frames == Wire(io'.sends, "scInputs")
        IN /\ Len(frames) = CeilDiv(Max(Abs(dx), Abs(dy)), 127)
           /\ \A i \in 1 .. Len(frames) :
                /\ frames[i].type = "MSGC_INPUTS_MOUSE_MOTION"
                /\ frames[i].f[1] \in -127 .. 127
                /\ frames[i].f[2] \in -127 .. 127
           /\ SumOf(frames, 1) = dx
           /\ SumOf(frames, 2) = dy
           /\ spice'.mouse.sentCount = spice.mouse.sentCount + Len(frames)]_vars

\* mouseMotion(200, -300) from sentCount = 0 has put (127,-127), (73,-127),
\* (0,-46) on the wire and sentCount is 3
C6_Witness ==
  /\ io.op.name = "mouseMotion"
  /\ io.op.m.a = <<200, -300>>
  /\ hist.calls = 1
  /\ AllOk(io.sends)
  /\ Wire(io.sends, "scInputs") =
       << Frame("MSGC_INPUTS_MOUSE_MOTION", <<127, -127, 0>>),
          Frame("MSGC_INPUTS_MOUSE_MOTION", <<73, -127, 0>>),
          Frame("MSGC_INPUTS_MOUSE_MOTION", <<0, -46, 0>>) >>
  /\ spice.mouse.sentCount = 3

\* C7: one mouseMotion call makes at most one send on the Inputs socket,
\* whatever (dx, dy), and makes it holding the Inputs write lock.
C7_OneLockedSend ==
  io.op.name = "mouseMotion"
  => /\ Len(SendsOn(io.sends, "scInputs")) <= 1
     /\ io.sends = SendsOn(io.sends, "scInputs")
     /\ \A i \in 1 .. Len(io.sends) : io.sends[i].locked

\* a multi-packet motion went out in one locked send of three sub-motions
C7_Witness ==
  /\ io.op.name = "mouseMotion"
  /\ io.op.m.a = <<255, -300>>
  /\ Len(io.sends) = 1
  /\ io.sends[1].locked /\ io.sends[1].ok
  /\ Len(io.sends[1].frames) = 3

\* the code the claim gives for a key: 0xe0 or 0x80e0 with the low byte of
\* the extended code above it, or the plain code with the release bit
ClaimedKeyDown(c) == IF c < 256 THEN c ELSE BitOr(224, (c - 256) * 256)
ClaimedKeyUp(c) == IF c < 256 THEN BitOr(c, 128) ELSE BitOr(32992, (c - 256) * 256)

\* C10: on a connected Inputs channel keyDown(c) sends KEY_DOWN with code c
\* when c < 0x100 and 0xe0 | ((c - 0x100) << 8) when c >= 0x100 (0x100
\* included), and keyUp(c) sends KEY_UP with c | 0x80, respectively
\* 0x80e0 | ((c - 0x100) << 8).
C10_KeyCodes ==
  (io.op.name \in {"keyDown", "keyUp"} /\ spice.sc["scInputs"].connected)
  => /\ Len(io.sends) = 1
     /\ io.sends[1].ch = "scInputs"
     /\ io.sends[1].frames =
          << IF io.op.name = "keyDown"
             THEN Frame("MSGC_INPUTS_KEY_DOWN", <<ClaimedKeyDown(io.op.m.a[1])>>)
             ELSE Frame("MSGC_INPUTS_KEY_UP", <<ClaimedKeyUp(io.op.m.a[1])>>) >>

-----------------------------------------------------------------------------
(* SpecAck: a session of three channels on which the peer sets the ack     *)
(* window, pings and notifies.                                             *)

Windows == {0, 1, 2}

AckConnect == Connect({TRUE}, {"OK"})

AckMainInit ==
  /\ ~spice.sc["scMain"].initDone
  /\ Dispatch("scMain", MsgMainInit(0, 0), NoFail)

AckChannelsList ==
  /\ spice.sc["scMain"].initDone
  /\ ~spice.sc["scInputs"].connected
  /\ ~spice.sc["scPlayback"].connected
  /\ Dispatch("scMain",
              MsgChannelsList(<<SPICE_CHANNEL_INPUTS, SPICE_CHANNEL_PLAYBACK>>),
              NoFail)

AckInputsInit ==
  /\ ~spice.sc["scInputs"].initDone
  /\ Dispatch("scInputs", MsgInputsInit, NoFail)

AckSetAck ==
  \E c \in Channels, window \in Windows, plan \in {NoFail, WrFail} :
    Dispatch(c, MsgSetAck(3, window), plan)

AckPing ==
  \E c \in Channels, extra \in {0, 5}, plan \in {NoFail, WrFail, RdFail("NODATA")} :
    Dispatch(c, MsgPing(9, 77, extra), plan)

AckNotify ==
  \E c \in Channels : Dispatch(c, MsgNotify, NoFail)

NextAck ==
  \/ AckConnect
  \/ AckMainInit
  \/ AckChannelsList
  \/ AckInputsInit
  \/ AckSetAck
  \/ AckPing
  \/ AckNotify

SpecAck == Init /\ [][NextAck]_vars

-----------------------------------------------------------------------------
(* Claims on the ack policy and the ping, under SpecAck.                   *)

\* channel c is connected and past the init message its protocol has (the
\* Playback channel has none)
Settled(sp, c) ==
  sp.sc[c].connected /\ (c = "scPlayback" \/ sp.sc[c].initDone)

\* the last operation read the message of type `type` whole and answered
\* whatever it had to answer
Processed(type) ==
  /\ io.op.name = "process"
  /\ io.op.m.type = type
  /\ io.st \in {"OK", "HANDLED"}
  /\ io.rv
  /\ AllOk(io.sends)

\* C3: on every channel, a SET_ACK{generation, window} received while the
\* channel is connected sets ackFrequency to window and is answered by
\* exactly one ACK_SYNC of that generation, within its own processing.
C3_SetAckSync ==
  (Processed("SET_ACK") /\ Settled(spice, io.op.ch))
  => /\ spice.sc[io.op.ch].ackFrequency = io.op.m.a[2]
     /\ OfType(Wire(io.sends, io.op.ch), "MSGC_ACK_SYNC")
          = << Frame("MSGC_ACK_SYNC", <<io.op.m.a[1]>>) >>

\* C4: after SET_ACK{window = w > 0} the client sends exactly one ACK per w
\* messages received on the channel: the message that is number k*w since
\* the SET_ACK is followed by an ACK, and no other message is.
C4_AckEveryWindow ==
  LET c == io.op.ch IN
  (/\ io.op.name = "process"
   /\ io.op.m.type # "SET_ACK"
   /\ io.st \in {"OK", "HANDLED"} /\ io.rv /\ AllOk(io.sends)
   /\ Settled(spice, c)
   /\ hist.rx[c] > 0
   /\ spice.sc[c].ackFrequency > 0)
  => Len(OfType(Wire(io.sends, c), "MSGC_ACK"))
       = (IF hist.rx[c] % spice.sc[c].ackFrequency = 0 THEN 1 ELSE 0)

\* C5: every PING{id, timestamp, extra} on any channel is answered by exactly
\* one PONG with that id and timestamp and nothing of the extra bytes, all
\* of which are read; the session state is otherwise as it was (but for the
\* ack counter, which counts every message).
C5_PingPong ==
  [][LET c == io'.op.ch
         m == io'.op.m
     IN (/\ io'.op.name = "process"
         /\ m.type = "PING"
         /\ io'.st \in {"OK", "HANDLED"} /\ io'.rv /\ AllOk(io'.sends)
         /\ Settled(spice, c))
        => /\ OfType(Wire(io'.sends, c), "MSGC_PONG")
                = << Frame("MSGC_PONG", <<m.a[1], m.a[2]>>) >>
           /\ io'.consumed = m.size
           /\ spice' = [spice EXCEPT !.sc[c].ackCount = spice'.sc[c].ackCount]]_vars

-----------------------------------------------------------------------------
(* SpecClip: a session in which the agent of the guest announces, grabs    *)
(* and sends its clipboard.                                                *)

ClipTypes == {VD_AGENT_CLIPBOARD_UTF8_TEXT, VD_AGENT_CLIPBOARD_IMAGE_PNG}

ClipConnect == Connect({FALSE}, {"OK"})

\* the host registers its callbacks, if it does, before it polls
ClipSetCb ==
  /\ ~spice.cbDataFn
  /\ hist.msgs = 0
  /\ Call(purespice_setClipboardCb(
            Begin(Op("setClipboardCb", "-", NoMsg), NoFail), TRUE, TRUE, TRUE, TRUE))

ClipMainInit ==
  /\ ~spice.sc["scMain"].initDone
  /\ \E agent \in {0, 1} : Dispatch("scMain", MsgMainInit(10, agent), NoFail)

ClipAgentConnected ==
  /\ spice.sc["scMain"].initDone
  /\ ~spice.hasAgent
  /\ Dispatch("scMain", MsgU32("MAIN_AGENT_CONNECTED_TOKENS", 10), NoFail)

ClipAgentDisconnected ==
  /\ spice.hasAgent
  /\ Dispatch("scMain", MsgU32("MAIN_AGENT_DISCONNECTED", 0), NoFail)

\* the agent sends whole messages between two clipboards, never within one
ClipAnnounce ==
  /\ spice.hasAgent
  /\ ~hist.srv.active
  /\ \E caps \in {1, 3} : Dispatch("scMain", MsgAnnounce(0, caps), NoFail)

ClipGrab ==
  /\ spice.hasAgent
  /\ ~hist.srv.active
  /\ \E type \in ClipTypes : Dispatch("scMain", MsgGrab(<<type>>), NoFail)

\* the first frame of a clipboard of n bytes carries its first k bytes
ClipFirst ==
  /\ spice.hasAgent
  /\ ~hist.srv.active
  /\ \E type \in ClipTypes, n \in 0 .. MaxClip :
       \E k \in 0 .. n, plan \in {NoFail, RdFail("ERROR")} :
         Dispatch("scMain", MsgClipboard(type, n, Slice(0, k)), plan)

\* a following frame carries some more of the bytes still due
ClipMore ==
  /\ spice.hasAgent
  /\ hist.srv.active
  /\ spice.cbRemain > 0
  /\ \E k \in 1 .. hist.srv.n - Len(hist.srv.sent), plan \in {NoFail, RdFail("ERROR")} :
       Dispatch("scMain", MsgClipboardMore(Slice(Len(hist.srv.sent), k)), plan)

\* the host offers its own clipboard to the guest
ClipHostGrab ==
  /\ spice.hasAgent
  /\ ~spice.cbClientGrabbed
  /\ hist.enq < MaxEnq
  /\ Call(purespice_clipboardGrab(
            Begin(Op("clipboardGrab", "scMain",
                     Msg("-", 0, <<>>, <<"TEXT">>)), NoFail),
            <<"TEXT">>))

\* the peer closes the Main channel, which ends the session
ClipPeerCloses ==
  DispatchEvents(<<[ch |-> "scMain", msgs |-> <<>>]>>, NoFail)

NextClip ==
  \/ ClipConnect
  \/ ClipSetCb
  \/ ClipMainInit
  \/ ClipAgentConnected
  \/ ClipAgentDisconnected
  \/ ClipAnnounce
  \/ ClipGrab
  \/ ClipFirst
  \/ ClipMore
  \/ ClipHostGrab
  \/ ClipPeerCloses

SpecClip == Init /\ [][NextClip]_vars

-----------------------------------------------------------------------------
(* Claims on the clipboard the agent sends, under SpecClip.                *)

\* C8: for any VD_AGENT_CLIPBOARD announcing N bytes and any split of them
\* over frames, the first carrying K <= N bytes, the data callback fires
\* exactly once, only once the last byte has come, with a buffer of N
\* bytes equal to the frames' bytes in their order of arrival; it does not
\* fire while the payload is partial, nor outside a clipboard.
C8_Reassembly ==
  LET srv == hist.srv IN
  /\ (srv.started /\ srv.active) => srv.fired = 0
  /\ (srv.started /\ ~srv.active /\ srv.cb)
       => /\ srv.fired = 1
          /\ srv.got = srv.sent
          /\ Len(srv.got) = srv.n
  /\ DataCalls(io.calls) # <<>>
       => /\ io.op.name = "process" /\ io.op.m.type = "MAIN_AGENT_DATA"
          /\ srv.started /\ ~srv.active
          /\ Len(DataCalls(io.calls)) = 1

\* a clipboard of three bytes came in three frames of one byte each and the
\* callback has just fired, once, with the three bytes in order
C8_Witness ==
  /\ hist.srv.started /\ ~hist.srv.active
  /\ hist.srv.n = 3 /\ hist.srv.frames = 3
  /\ hist.srv.fired = 1
  /\ Len(DataCalls(io.calls)) = 1
  /\ DataCalls(io.calls)[1].data = <<1, 2, 3>>

\* C9: the type handed to the data callback is the mapping of the type the
\* VD_AGENT_CLIPBOARD message carries, whatever an earlier GRAB announced,
\* and with no GRAB before it.
C9_DataType ==
  (hist.srv.started /\ ~hist.srv.active /\ hist.srv.fired > 0)
  => hist.srv.gotType = agent_type_to_purespice_type(hist.srv.type)

-----------------------------------------------------------------------------
(* Spec: a session in which the host sends its clipboard to the agent of   *)
(* the guest, through the token-gated queue of the Main channel.           *)

\* sizes of a clipboard that go in no chunk, in two and in three chunks
DataSizes == {0, 3000, 5000}

TxConnect == Connect({FALSE}, {"OK"})

TxMainInit ==
  /\ ~spice.sc["scMain"].initDone
  /\ \E tokens \in {0, 3}, agent \in {0, 1} :
       Dispatch("scMain", MsgMainInit(tokens, agent), NoFail)

TxAgentConnected ==
  /\ spice.sc["scMain"].initDone
  /\ ~spice.hasAgent
  /\ hist.enq < MaxEnq
  /\ \E plan \in {NoFail, [WrFail EXCEPT !.wrLeft = 1]} :
       Dispatch("scMain", MsgU32("MAIN_AGENT_CONNECTED_TOKENS", 3), plan)

TxAgentDisconnected ==
  /\ spice.hasAgent
  /\ Dispatch("scMain", MsgU32("MAIN_AGENT_DISCONNECTED", 0), NoFail)

TxAgentToken ==
  /\ spice.sc["scMain"].initDone
  /\ \E count \in {1, 5}, plan \in {NoFail, WrFail} :
       Dispatch("scMain", MsgU32("MAIN_AGENT_TOKEN", count), plan)

TxGrab ==
  /\ hist.enq < MaxEnq
  /\ \E types \in {<<VD_AGENT_CLIPBOARD_UTF8_TEXT>>} :
       Call(purespice_clipboardGrab(
              Begin(Op("clipboardGrab", "scMain", Msg("-", 0, <<>>, types)), NoFail),
              types))

TxRelease ==
  /\ hist.enq < MaxEnq
  /\ Call(purespice_clipboardRelease(
            Begin(Op("clipboardRelease", "scMain", NoMsg), NoFail)))

TxDataStart ==
  /\ hist.enq < MaxEnq
  /\ \E size \in DataSizes :
       Call(purespice_clipboardDataStart(
              Begin(Op("clipboardDataStart", "scMain", Msg("-", 0, <<size>>, <<>>)),
                    NoFail),
              "TEXT", size))

\* the host writes what it announced, in one call or in two
TxData ==
  /\ hist.enq < MaxEnq
  /\ \E size \in DataSizes \ {0} :
       /\ size <= spice.agentMsg
       /\ Call(purespice_clipboardData(
                 Begin(Op("clipboardData", "scMain", Msg("-", 0, <<size>>, <<>>)),
                       NoFail),
                 size))

Next ==
  \/ TxConnect
  \/ TxMainInit
  \/ TxAgentConnected
  \/ TxAgentDisconnected
  \/ TxAgentToken
  \/ TxGrab
  \/ TxRelease
  \/ TxDataStart
  \/ TxData

Spec == Init /\ [][Next]_vars

-----------------------------------------------------------------------------
(* Claims on the agent TX queue, under Spec.                               *)

\* C1: the agent frames written to the Main channel are in the order in
\* which they were put on the queue (their identities, given at the push,
\* rise along the wire), and at every moment their number is at most the
\* tokens the peer has granted in INIT, AGENT_CONNECTED_TOKENS and
\* AGENT_TOKEN.
C1_OrderAndTokens ==
  /\ \A i \in 1 .. Len(hist.agentWire) - 1 : hist.agentWire[i] < hist.agentWire[i + 1]
  /\ \A i \in 1 .. Len(hist.agentWire) : hist.agentWire[i] <= hist.enq
  /\ Len(hist.agentWire) <= hist.granted

\* every token granted has been spent on a frame, five frames are on the
\* wire and a frame waits for the next token
C1_Witness ==
  /\ Len(hist.agentWire) = hist.granted
  /\ Len(hist.agentWire) >= 5
  /\ spice.agentQueue # <<>>
  /\ spice.serverTokens = 0

\* the scenario of C2, the tokens settling at `settled`: since the queue
\* was last seen empty, with one token, three frames were pushed, no send
\* failed and the agent did not reconnect
TokenStarvation(settled) ==
  LET b == hist.base
      wire == SubSeq(hist.agentWire, b.wire + 1, Len(hist.agentWire))
  IN (b.ok /\ b.tokens = 1 /\ hist.enq - b.enq = 3)
     => /\ b.grants = <<>>
             => /\ wire = <<b.enq + 1>>
                /\ Len(spice.agentQueue) = 2
        /\ b.grants = << <<"TOKEN", 5, 3>> >>
             => /\ wire = <<b.enq + 1, b.enq + 2, b.enq + 3>>
                /\ spice.agentQueue = <<>>
                /\ spice.serverTokens = settled

\* C2: with serverTokens = 1 and the queue empty, pushing three agent frames
\* puts one on the wire and leaves two queued; MSG_MAIN_AGENT_TOKEN{5} then
\* has the other two sent in their order, and serverTokens settles at 4.
C2_Starvation == TokenStarvation(4)

\* C2 as the code has it: serverTokens settles at 1 + 5 - 3 = 3.
C2_StarvationAmended == TokenStarvation(3)

\* the scenario has run to its end: the three frames are on the wire in
\* their order and three tokens are left
C2_Witness ==
  /\ hist.base.ok /\ hist.base.tokens = 1
  /\ hist.enq - hist.base.enq = 3
  /\ hist.base.grants = << <<"TOKEN", 5, 3>> >>
  /\ io.op.m.type = "MAIN_AGENT_TOKEN"
  /\ Len(OfType(Wire(io.sends, "scMain"), "MSGC_MAIN_AGENT_DATA")) = 2
  /\ spice.agentQueue = <<>>
  /\ spice.serverTokens = 3

-----------------------------------------------------------------------------
(* SpecProto: a session whose peer breaks the protocol: messages before    *)
(* and after the init of a channel, repeated channels, oversized agent     *)
(* messages, and several messages read by one purespice_process.           *)

\* the channel lists of MSG_MAIN_CHANNELS_LIST
ChannelLists ==
  {<<SPICE_CHANNEL_INPUTS>>,
   <<SPICE_CHANNEL_INPUTS, SPICE_CHANNEL_INPUTS>>,
   <<SPICE_CHANNEL_INPUTS, SPICE_CHANNEL_PLAYBACK>>,
   <<SPICE_CHANNEL_PLAYBACK, SPICE_CHANNEL_INPUTS, SPICE_CHANNEL_INPUTS>>,
   <<SPICE_CHANNEL_INPUTS, SPICE_CHANNEL_PLAYBACK, SPICE_CHANNEL_PLAYBACK>>}

\* declared sizes of a VDAgentMessage around the limit of 1024
AgentSizes == {1024, 1025, 1028, 1029}

Ev(c, msgs) == [ch |-> c, msgs |-> msgs]

\* what one epoll_wait may report
EventSets ==
  {<<Ev("scInputs", <<MsgMotionAck, MsgKeyModifiers(5)>>)>>,
   <<Ev("scInputs", <<MsgKeyModifiers(5), MsgInputsInit>>)>>,
   <<Ev("scMain", <<MsgNotify, MsgNotify>>)>>,
   <<Ev("scMain", <<MsgNotify>>), Ev("scInputs", <<MsgMotionAck>>)>>,
   <<Ev("scInputs", <<MsgMotionAck>>), Ev("scMain", <<MsgNotify>>)>>,
   <<Ev("scPlayback", <<Msg("PLAYBACK_STOP", 0, <<>>, <<>>), MsgNotify>>)>>,
   <<Ev("scInputs", <<>>)>>}

PrConnect == Connect({FALSE, TRUE}, {"OK"})

PrMainInit ==
  \E agent \in {0, 1} : Dispatch("scMain", MsgMainInit(10, agent), NoFail)

PrChannelsList ==
  \E list \in ChannelLists : Dispatch("scMain", MsgChannelsList(list), NoFail)

\* the peer opens the Inputs channel with the state of its keyboard LEDs
PrInputsInit ==
  \E modifiers \in {0, 5} :
    Dispatch("scInputs", [MsgInputsInit EXCEPT !.a = <<modifiers>>], NoFail)

PrInputsOther ==
  \E m \in {MsgKeyModifiers(5), MsgMotionAck, MsgNotify} :
    Dispatch("scInputs", m, NoFail)

PrMainOther ==
  \E m \in {MsgNotify, MsgSetAck(3, 1)} : Dispatch("scMain", m, NoFail)

PrAnnounce ==
  /\ spice.hasAgent
  /\ \E size \in {capsSize, 1025}, caps \in {1, 3} :
       Dispatch("scMain",
                MsgAgentData(VD_AGENT_ANNOUNCE_CAPABILITIES, size, 0, caps, <<>>, size),
                NoFail)

PrGrab ==
  /\ spice.hasAgent
  /\ \E size \in AgentSizes \cup {SelLen + SIZEOF_uint32} :
       Dispatch("scMain",
                MsgAgentData(VD_AGENT_CLIPBOARD_GRAB, size, 0, 0,
                             <<VD_AGENT_CLIPBOARD_UTF8_TEXT>>, size),
                NoFail)

PrProcessEvents ==
  \E evs \in EventSets, plan \in {NoFail, WrFail, RdFail("ERROR")} :
    DispatchEvents(evs, plan)

NextProto ==
  \/ PrConnect
  \/ PrMainInit
  \/ PrChannelsList
  \/ PrInputsInit
  \/ PrInputsOther
  \/ PrMainOther
  \/ PrAnnounce
  \/ PrGrab
  \/ PrProcessEvents

SpecProto == Init /\ [][NextProto]_vars

-----------------------------------------------------------------------------
(* Claims on protocol violations, under SpecProto.                         *)

\* the operation just made read message m of channel c alone, and the stream
\* of c did not end in it
Read1(c, m) ==
  /\ io'.op.name = "process"
  /\ io'.op.ch = c
  /\ io'.op.m = m
  /\ io'.st # "NODATA"

\* C11: a VD_AGENT_ANNOUNCE_CAPABILITIES or VD_AGENT_CLIPBOARD_GRAB that opens
\* an agent message and declares a VDAgentMessage.size above 1024 is answered
\* with PS_STATUS_ERROR, and of the frame's body nothing but the
\* VDAgentMessage header itself is read, with the selection capability
\* agreed or not.
C11_OversizeRejected ==
  [][\A m \in {io'.op.m} :
       (/\ Read1("scMain", m)
        /\ m.type = "MAIN_AGENT_DATA"
        /\ spice.sc["scMain"].initDone
        /\ spice.hasAgent
        /\ spice.cbRemain = 0
        /\ m.a[1] = VD_AGENT_PROTOCOL
        /\ m.a[2] \in {VD_AGENT_ANNOUNCE_CAPABILITIES, VD_AGENT_CLIPBOARD_GRAB}
        /\ m.a[3] > MAX_CAPS_MSG_SIZE)
       => /\ io'.st = "ERROR"
          /\ io'.consumed = SIZEOF_VDAgentMessage]_vars

\* C13: once a channel->read of a purespice_process has returned
\* PS_STATUS_ERROR, that call returns false and has made no further read.
C13_ErrorIsFatal ==
  io.errAt > 0 => ~io.rv /\ io.reads = io.errAt

\* the messages of the events
RECURSIVE EvCount(_)
EvCount(evs) == IF evs = <<>> THEN 0 ELSE Len(Head(evs).msgs) + EvCount(Tail(evs))

\* a purespice_process with two messages to read stopped at the first, which
\* its parser refused
C13_Witness ==
  /\ io.op.name = "processEvents"
  /\ EvCount(io.op.m.data) >= 2
  /\ io.errAt = 1
  /\ io.reads = 1
  /\ ~io.rv

\* the designated init message of a channel
InitOf(c) == IF c = "scMain" THEN "MAIN_INIT" ELSE "INPUTS_INIT"

\* C16: on the Main and on the Inputs channel, a message other than the
\* channel's init message that is read while initDone is false is answered
\* with PS_STATUS_ERROR and changes nothing of the keyboard and mouse state
\* nor initDone.
C16_OnlyInitBeforeInit ==
  [][\A c \in {"scMain", "scInputs"} :
       (/\ Read1(c, io'.op.m)
        /\ ~spice.sc[c].initDone
        /\ io'.op.m.type # InitOf(c))
       => /\ io'.st = "ERROR"
          /\ spice'.kb = spice.kb
          /\ spice'.mouse = spice.mouse
          /\ ~spice'.sc[c].initDone]_vars

\* C17: the init message of the Main or of the Inputs channel read while
\* initDone is already set is answered with PS_STATUS_ERROR and leaves
\* sessionID, serverTokens and the modifiers as they were.
C17_DuplicateInit ==
  [][\A c \in {"scMain", "scInputs"} :
       (/\ Read1(c, io'.op.m)
        /\ spice.sc[c].initDone
        /\ io'.op.m.type = InitOf(c))
       => /\ io'.st = "ERROR"
          /\ spice'.sessionID = spice.sessionID
          /\ spice'.serverTokens = spice.serverTokens
          /\ spice'.kb = spice.kb]_vars

\* how often x occurs in the sequence q
Count(q, x) == Cardinality({i \in 1 .. Len(q) : q[i] = x})

\* the channel of a channel type of the list
ChannelOf(type) == IF type = SPICE_CHANNEL_INPUTS THEN "scInputs" ELSE "scPlayback"

\* the channel types the client links: Inputs, and Playback when audio was asked
Linked == {SPICE_CHANNEL_INPUTS} \cup
          (IF spice.playback THEN {SPICE_CHANNEL_PLAYBACK} ELSE {})

\* C18: a MSG_MAIN_CHANNELS_LIST that names a linked channel type twice, or
\* names one whose channel is connected already, is answered with
\* PS_STATUS_ERROR, and no channel is linked twice by it.
C18_RepeatedChannel ==
  [][\A m \in {io'.op.m} :
       (/\ Read1("scMain", m)
        /\ m.type = "MAIN_CHANNELS_LIST"
        /\ spice.sc["scMain"].initDone
        /\ \E type \in Linked :
             \/ Count(m.data, type) >= 2
             \/ Count(m.data, type) >= 1 /\ spice.sc[ChannelOf(type)].connected)
       => /\ io'.st = "ERROR"
          /\ \A c \in Channels :
               Cardinality({i \in 1 .. Len(io'.links) : io'.links[i].ch = c}) <= 1]_vars

-----------------------------------------------------------------------------
(* SpecLink: the life of the channels: the link handshakes and how they    *)
(* fail, the init messages, purespice_disconnect and what an injector and  *)
(* purespice_ready see afterwards.                                         *)

\* how the link handshake of a channel may end
LinkEnds == {"OK", "NOCONNECT", "LINKERR", "LINKEOF", "LINKRDERR"}

LkConnect == Connect({FALSE, TRUE}, LinkEnds)

LkMainInit ==
  /\ ~spice.sc["scMain"].initDone
  /\ Dispatch("scMain", MsgMainInit(0, 0), NoFail)

LkChannelsList ==
  \E list \in {<<SPICE_CHANNEL_INPUTS>>,
               <<SPICE_CHANNEL_INPUTS, SPICE_CHANNEL_PLAYBACK>>,
               <<SPICE_CHANNEL_PLAYBACK, SPICE_CHANNEL_INPUTS>>},
     how1 \in LinkEnds, how2 \in LinkEnds :
    Dispatch("scMain", MsgChannelsList(list), [NoFail EXCEPT !.link = <<how1, how2>>])

LkInputsInit ==
  /\ ~spice.sc["scInputs"].initDone
  /\ Dispatch("scInputs", MsgInputsInit, NoFail)

\* the peer closes a channel
LkPeerCloses ==
  \E c \in Channels : DispatchEvents(<<Ev(c, <<>>)>>, NoFail)

LkDisconnect ==
  Call(purespice_disconnect(Begin(Op("disconnect", "-", NoMsg), NoFail)))

LkKeyDown ==
  Call(purespice_keyDown(Begin(Op("keyDown", "scInputs",
         Msg("-", 0, <<30>>, <<>>)), NoFail), 30))

NextLink ==
  \/ LkConnect
  \/ LkMainInit
  \/ LkChannelsList
  \/ LkInputsInit
  \/ LkPeerCloses
  \/ LkDisconnect
  \/ LkKeyDown

SpecLink == Init /\ [][NextLink]_vars

-----------------------------------------------------------------------------
(* Claims on the life of the channels, under SpecLink.                     *)

\* C12: purespice_ready returns true only when the last link handshake of
\* the Main and of the Inputs channel each ended with SPICE_LINK_ERR_OK and
\* both channels are connected; so it is false after an Inputs handshake
\* that failed.
C12_ReadyMeansLinked ==
  purespice_ready(Cur) =>
    \A c \in {"scMain", "scInputs"} : c \in hist.linked /\ spice.sc[c].connected

\* C19: a link handshake that fails in an operation makes the operation end
\* with a status other than PS_STATUS_OK and leaves its channel with the
\* socket closed, connected false and ready false.
C19_FailedLinkClosed ==
  \A i \in 1 .. Len(io.links) :
    io.links[i].how # "OK" =>
      /\ io.st # "OK"
      /\ io.links[i].ch \notin io.open
      /\ ~spice.sc[io.links[i].ch].connected
      /\ ~spice.sc[io.links[i].ch].ready

\* C20: purespice_disconnect leaves every channel that was connected shut
\* down for writing, off the epoll instance, and with connected, ready and
\* initDone false; purespice_ready is false after it.
C20_DisconnectTerminal ==
  [][io'.op.name = "disconnect" =>
       /\ \A c \in Channels :
            spice.sc[c].connected =>
              /\ c \in io'.shutWr
              /\ c \notin io'.epoll
              /\ ~spice'.sc[c].connected
              /\ ~spice'.sc[c].ready
              /\ ~spice'.sc[c].initDone
       /\ ~(spice'.sc["scMain"].connected /\ spice'.sc["scInputs"].connected)]_vars

-----------------------------------------------------------------------------
(* A claim on the writers of the Inputs channel, under SpecInputs.         *)

Writers == {"keyDown", "keyUp", "keyModifiers", "mouseMode", "mousePosition",
            "mouseMotion", "mousePress", "mouseRelease"}

\* C14: a writer that returns false has written no frame and has left
\* sentCount and buttonState as they were; a writer called while its channel
\* is not connected returns false and sends nothing.
C14_FalseMeansNotSent ==
  [][io'.op.name \in Writers =>
       /\ ~io'.rv =>
            /\ \A i \in 1 .. Len(io'.sends) : ~io'.sends[i].ok
            /\ spice'.mouse.sentCount = spice.mouse.sentCount
            /\ spice'.mouse.buttonState = spice.mouse.buttonState
       /\ ~spice.sc[io'.op.ch].connected => ~io'.rv /\ io'.sends = <<>>]_vars

-----------------------------------------------------------------------------
(* SpecLock: the send sections of the threads, step by step. A thread     *)
(* that has a frame to write runs SPICE_LOCK, send(2) and SPICE_UNLOCK as  *)
(* separate steps, so that the sections of different threads interleave;   *)
(* the handlers and calls of the other specifications run whole while no   *)
(* thread is in a section.                                                 *)

\* SPICE_LOCK spins until its test-and-set finds the lock free
SpinFree(s, c) == ~s.spice.sc[c].lock

\* the send sections: the channel, and the buffers handed to send(2) one
\* after the other while the lock is held.
\* The thread of purespice_process writes MSGC_ACK and MSGC_PONG on the
\* channel it reads; a host thread writes a key, one buffer of coalesced
\* motions, a mouse mode request, or drains two packets of the agent queue.
Sections(t) ==
  IF t = "process"
  THEN {[ch |-> "scMain", todo |-> <<<<Frame("MSGC_ACK", <<0>>)>>>>],
        [ch |-> "scInputs", todo |-> <<<<Frame("MSGC_ACK", <<0>>)>>>>],
        [ch |-> "scPlayback", todo |-> <<<<Frame("MSGC_PONG", <<9, 77>>)>>>>]}
  ELSE {[ch |-> "scInputs", todo |-> <<<<Frame("MSGC_INPUTS_KEY_DOWN", <<30>>)>>>>],
        [ch |-> "scInputs", todo |-> <<MotionFill(200, 0, 0)>>],
        [ch |-> "scMain",
         todo |-> <<<<Frame("MSGC_MAIN_MOUSE_MODE_REQUEST", <<SPICE_MOUSE_MODE_CLIENT>>)>>>>],
        [ch |-> "scMain",
         todo |-> <<<<Frame("MSGC_MAIN_AGENT_DATA", <<1>>)>>,
                    <<Frame("MSGC_MAIN_AGENT_DATA", <<2>>)>>>>]}

AllIdle == \A t \in Threads : io.thr[t] = Idle

\* a thread has built a packet for a connected channel and reaches SPICE_LOCK
ThrCall(t) ==
  /\ io.thr[t] = Idle
  /\ io.fault = "-"
  /\ hist.sections < MaxSections
  /\ \E sec \in Sections(t) :
       /\ spice.sc[sec.ch].connected
       /\ Commit([Cur EXCEPT !.io.thr[t] = [ch |-> sec.ch, pc |-> "spin", todo |-> sec.todo],
                             !.io.sends = IF AllIdle THEN <<>> ELSE @,
                             !.hist.sections = @ + 1])

\* its SPICE_LOCK returns
ThrLock(t) ==
  /\ io.thr[t].pc = "spin"
  /\ SpinFree(Cur, io.thr[t].ch)
  /\ Commit([SPICE_LOCK(Cur, io.thr[t].ch) EXCEPT !.io.thr[t].pc = "locked"])

\* it enters send(2)
ThrSendBegin(t) ==
  /\ io.thr[t].pc = "locked"
  /\ io.thr[t].todo # <<>>
  /\ Commit([Cur EXCEPT !.io.thr[t].pc = "sending"])

\* send(2) returns
ThrSendEnd(t) ==
  /\ io.thr[t].pc = "sending"
  /\ Commit([send(Cur, io.thr[t].ch, Head(io.thr[t].todo)) EXCEPT
               !.io.thr[t].pc = "locked", !.io.thr[t].todo = Tail(@)])

\* it runs SPICE_UNLOCK
ThrUnlock(t) ==
  /\ io.thr[t].pc = "locked"
  /\ io.thr[t].todo = <<>>
  /\ Commit([SPICE_UNLOCK(Cur, io.thr[t].ch) EXCEPT !.io.thr[t] = Idle])

LockConnect == Connect({TRUE}, {"OK"})

\* the agent is there: the client announces its capabilities through the
\* agent queue
LockMainInit ==
  /\ AllIdle
  /\ ~spice.sc["scMain"].initDone
  /\ Dispatch("scMain", MsgMainInit(10, 1), NoFail)

LockChannelsList ==
  /\ AllIdle
  /\ spice.sc["scMain"].initDone
  /\ ~spice.sc["scInputs"].connected
  /\ Dispatch("scMain", MsgChannelsList(<<SPICE_CHANNEL_INPUTS, SPICE_CHANNEL_PLAYBACK>>),
              [NoFail EXCEPT !.link = <<"OK", "OK">>])

LockInputsInit ==
  /\ AllIdle
  /\ ~spice.sc["scInputs"].initDone
  /\ Dispatch("scInputs", MsgInputsInit, NoFail)

\* the common messages the peer sends once both channels are up, in this
\* order: SET_ACK, PING, then NOTIFY; answered with ACK_SYNC, PONG and ACK
LockCommon ==
  /\ AllIdle
  /\ spice.sc["scInputs"].initDone
  /\ \E c \in {"scMain", "scInputs"} :
       Dispatch(c, CASE hist.msgs = 3 -> MsgSetAck(3, 1)
                     [] hist.msgs = 4 -> MsgPing(9, 77, 0)
                     [] OTHER -> MsgNotify,
                NoFail)

\* the calls of the host made whole, in this order: a coalesced motion, a
\* mouse mode request, then purespice_disconnect
LockMouseMotion ==
  /\ AllIdle
  /\ hist.calls = 0
  /\ spice.sc["scInputs"].initDone
  /\ Call(purespice_mouseMotion(Begin(Op("mouseMotion", "scInputs",
             Msg("-", 0, <<200, 0>>, <<>>)), NoFail), 200, 0))

LockMouseMode ==
  /\ AllIdle
  /\ hist.calls = 1
  /\ Call(purespice_mouseMode(Begin(Op("mouseMode", "scMain", NoMsg), NoFail), FALSE))

LockDisconnect ==
  /\ AllIdle
  /\ hist.calls >= 2
  /\ Call(purespice_disconnect(Begin(Op("disconnect", "-", NoMsg), NoFail)))

NextLock ==
  \/ \E t \in Threads : ThrCall(t)
  \/ \E t \in Threads : ThrLock(t)
  \/ \E t \in Threads : ThrSendBegin(t)
  \/ \E t \in Threads : ThrSendEnd(t)
  \/ \E t \in Threads : ThrUnlock(t)
  \/ LockConnect
  \/ LockMainInit
  \/ LockChannelsList
  \/ LockInputsInit
  \/ LockCommon
  \/ LockMouseMotion
  \/ LockMouseMode
  \/ LockDisconnect

SpecLock == Init /\ [][NextLock]_vars

-----------------------------------------------------------------------------
(* A claim on the write locks, under SpecLock.                             *)

\* the threads inside send(2) on channel c
Sending(c) == {t \in Threads : io.thr[t].pc = "sending" /\ io.thr[t].ch = c}

-----------------------------------------------------------------------------
(* Claims on the end of a session and on the Main channel's errors.        *)

\* C21 (under SpecLink): a purespice_process in which the Main channel is
\* seen closed returns false, also while the Inputs channel is connected;
\* and one that returns false with no parser error and no failed send has
\* found both channels gone and has reset sessionID and the clipboard
\* receive state.
C21_FalseOnMainClosed ==
  [][io'.op.name \in {"process", "processEvents"} =>
       /\ (spice.sc["scMain"].connected /\ ~spice'.sc["scMain"].connected) => ~io'.rv
       /\ (~io'.rv /\ io'.errAt = 0 /\ AllOk(io'.sends)) =>
            /\ ~spice'.sc["scMain"].connected /\ ~spice'.sc["scInputs"].connected
            /\ spice'.sessionID = 0
            /\ ~spice'.cbBufferAlloc /\ spice'.cbRemain = 0 /\ spice'.cbSize = 0
            /\ ~spice'.cbAgentGrabbed /\ ~spice'.cbClientGrabbed]_vars

\* C22 (under SpecAck): when the read of a message of the Main channel ends
\* with PS_STATUS_ERROR, purespice_process returns false and
\* purespice_disconnect has run: DISCONNECTING was written on Main, Main and
\* a connected Inputs channel are shut down for writing, the epoll instance
\* is closed, the agent queue is freed and hasAgent is false.
C22_MainErrorDisconnects ==
  [][(io'.op.name = "process" /\ io'.op.ch = "scMain" /\ io'.st = "ERROR") =>
       /\ ~io'.rv
       /\ \E i \in 1 .. Len(io'.sends) :
            /\ io'.sends[i].ch = "scMain"
            /\ OfType(io'.sends[i].frames, "MSGC_DISCONNECTING") # <<>>
       /\ "scMain" \in io'.shutWr
       /\ spice.sc["scInputs"].connected => "scInputs" \in io'.shutWr
       /\ io'.epoll = {}
       /\ spice'.agentQueue = <<>> /\ ~spice'.agentQueueAlloc
       /\ ~spice'.hasAgent]_vars

\* C23 (under SpecProto): a MSG_MAIN_INIT processed with PS_STATUS_OK stores
\* session_id, sets initDone, leaves of agent_tokens what the agent frames
\* written did not spend, and writes on Main, in this order: the agent
\* traffic (some iff agent_connected # 0), one MOUSE_MODE_REQUEST asking for
\* SPICE_MOUSE_MODE_SERVER iff current_mouse_mode is not CLIENT, and one
\* MSGC_MAIN_ATTACH_CHANNELS with an empty body.
C23_MainInit ==
  [][\A m \in {io'.op.m} :
       (/\ Read1("scMain", m)
        /\ m.type = "MAIN_INIT"
        /\ ~spice.sc["scMain"].initDone
        /\ io'.st = "OK")
       => LET w    == Wire(io'.sends, "scMain")
              tail == (IF m.a[2] # SPICE_MOUSE_MODE_CLIENT
                       THEN <<Frame("MSGC_MAIN_MOUSE_MODE_REQUEST",
                                    <<SPICE_MOUSE_MODE_SERVER>>)>>
                       ELSE <<>>)
                      \o <<Frame("MSGC_MAIN_ATTACH_CHANNELS", <<>>)>>
              k    == Len(w) - Len(tail)
          IN /\ spice'.sessionID = m.a[1]
             /\ spice'.sc["scMain"].initDone
             /\ spice'.serverTokens + Len(OfType(w, "MSGC_MAIN_AGENT_DATA")) = m.a[3]
             /\ k >= 0
             /\ SubSeq(w, k + 1, Len(w)) = tail
             /\ k > 0 <=> m.a[4] # 0
             /\ \A i \in 1 .. k :
                  w[i].type \in {"MSGC_MAIN_AGENT_START", "MSGC_MAIN_AGENT_DATA"}]_vars

-----------------------------------------------------------------------------
(* Claims on the clipboard receive buffer.                                 *)

\* SpecClipOverlap: the session of SpecClip with an agent that may open a
\* VD_AGENT_CLIPBOARD while the bytes of an earlier one are still due
ClipSecond ==
  /\ spice.hasAgent
  /\ spice.cbRemain > 0
  /\ \E type \in ClipTypes, n \in 1 .. MaxClip :
       Dispatch("scMain", MsgClipboard(type, n, Slice(10, n)), NoFail)

SpecClipOverlap == Init /\ [][NextClip \/ ClipSecond]_vars

\* C24 (under SpecClipOverlap): a MSG_MAIN_AGENT_DATA that opens a
\* VD_AGENT_CLIPBOARD while cbRemain > 0 is answered with PS_STATUS_ERROR
\* and none of its bytes is stored in the buffer of the clipboard under way.
C24_SecondClipboardRejected ==
  [][\A m \in {io'.op.m} :
       (/\ Read1("scMain", m)
        /\ m.type = "MAIN_AGENT_DATA"
        /\ m.a # <<>>
        /\ m.a[2] = VD_AGENT_CLIPBOARD
        /\ spice.sc["scMain"].initDone
        /\ spice.hasAgent
        /\ spice.cbRemain > 0)
       => /\ io'.st = "ERROR"
          /\ \A i \in 1 .. Len(io'.calls) : io'.calls[i].fn # "cbDataFn"
          /\ spice'.cbBufferAlloc => spice'.cbBuffer = spice.cbBuffer]_vars

\* the buffer is allocated exactly while bytes are due, and what is due and
\* what has come add up to the VDAgentMessage.size announced less `prefix`
\* bytes; hist.srv.n is that size less the type word and less the selection
\* word where the capability is agreed
RxBuffer(prefix) ==
  /\ spice.cbBufferAlloc <=> spice.cbRemain > 0
  /\ spice.cbBufferAlloc =>
       /\ hist.srv.active
       /\ spice.cbRemain + spice.cbSize
            = (hist.srv.n + SIZEOF_uint32 + SelLen) - prefix
       /\ Len(spice.cbBuffer) = spice.cbSize

-----------------------------------------------------------------------------
(* Claims on the drain of the agent queue when a send fails.               *)

\* the host writes its clipboard and the socket refuses the send of a chunk
TxDataFail ==
  /\ hist.enq < MaxEnq
  /\ \E size \in DataSizes \ {0}, ok \in {0, 1} :
       /\ size <= spice.agentMsg
       /\ Call(purespice_clipboardData(
                 Begin(Op("clipboardData", "scMain", Msg("-", 0, <<size>>, <<>>)),
                       [WrFail EXCEPT !.wrLeft = ok]),
                 size))

SpecTxFail == Init /\ [][Next \/ TxDataFail]_vars

\* C26: after every operation that leaves the Main channel connected, the
\* agent queue is empty or serverTokens is 0 (no frame stays queued while a
\* token is available); and a call of the clipboard API, which grants no
\* token, lowers serverTokens by one for each frame it hands to the socket.
C26_NoFrameLeftQueued ==
  [][/\ (spice'.sc["scMain"].connected /\ io'.fault = "-")
          => (spice'.agentQueue = <<>> \/ spice'.serverTokens = 0)
     /\ io'.op.name \in {"clipboardGrab", "clipboardRelease",
                         "clipboardDataStart", "clipboardData"}
          => spice'.serverTokens
               = spice.serverTokens - Len(SendsOn(io'.sends, "scMain"))]_vars

-----------------------------------------------------------------------------
(* SpecMotion: a session whose pointer packets the peer acknowledges.      *)

Positions == {0, 640}

MoMousePosition ==
  \E x \in Positions, plan \in {NoFail, WrFail} :
    Call(purespice_mousePosition(Begin(Op("mousePosition", "scInputs",
           Msg("-", 0, <<x, x>>, <<>>)), plan), x, x))

\* the peer acknowledges a bunch of pointer packets, received or not
MoMotionAck ==
  /\ spice.sc["scInputs"].initDone
  /\ Dispatch("scInputs", MsgMotionAck, NoFail)

NextMotion ==
  \/ InConnect
  \/ InMainInit
  \/ InChannelsList
  \/ InInputsInit
  \/ InMouseMotion
  \/ MoMousePosition
  \/ MoMotionAck

SpecMotion == Init /\ [][NextMotion]_vars

\* C27: INPUTS_MOUSE_MOTION_ACK lowers sentCount by exactly
\* SPICE_INPUT_MOTION_ACK_BUNCH and is an Error exactly when sentCount was
\* smaller than that before; mousePosition on a connected channel raises
\* sentCount by one; and when the bunches acknowledged so far, this one
\* included, cover no more than the pointer packets the peer has received,
\* the acknowledgement is not an Error.
C27_MotionAck ==
  [][/\ (/\ io'.op.name = "process"
         /\ io'.op.ch = "scInputs"
         /\ io'.op.m.type = "INPUTS_MOUSE_MOTION_ACK")
          => /\ spice'.mouse.sentCount
                  = spice.mouse.sentCount - SPICE_INPUT_MOTION_ACK_BUNCH
             /\ io'.st = "ERROR"
                  <=> spice.mouse.sentCount < SPICE_INPUT_MOTION_ACK_BUNCH
             /\ hist'.motion.acks = hist.motion.acks + 1
             /\ hist'.motion.acks * SPICE_INPUT_MOTION_ACK_BUNCH <= hist.motion.rx
                  => io'.st # "ERROR"
     /\ (io'.op.name = "mousePosition" /\ spice.sc["scInputs"].connected)
          => spice'.mouse.sentCount = spice.mouse.sentCount + 1]_vars

\* the peer has received a position and three sub-motions and its
\* acknowledgement of the four has been taken without an Error
C27_Witness ==
  /\ io.op.name = "process"
  /\ io.op.m.type = "INPUTS_MOUSE_MOTION_ACK"
  /\ io.st = "OK"
  /\ hist.motion.acks = 1
  /\ hist.motion.rx = SPICE_INPUT_MOTION_ACK_BUNCH
  /\ spice.mouse.sentCount = 0

-----------------------------------------------------------------------------
(* Claims on the keyboard modifiers, under SpecProto.                      *)

\* C28: when INPUTS_INIT{modifiers = m} has been processed, initDone of the
\* Inputs channel is set and spice.kb.modifiers is m; when
\* INPUTS_KEY_MODIFIERS{modifiers = m} has been processed, spice.kb.modifiers
\* is m.
C28_ModifierShadow ==
  [][(/\ io'.op.name = "process"
      /\ io'.op.ch = "scInputs"
      /\ io'.st = "OK")
       => /\ (io'.op.m.type = "INPUTS_INIT" /\ ~spice.sc["scInputs"].initDone)
               => /\ spice'.sc["scInputs"].initDone
                  /\ spice'.kb.modifiers = io'.op.m.a[1]
          /\ (io'.op.m.type = "INPUTS_KEY_MODIFIERS"
              /\ spice.sc["scInputs"].initDone)
               => spice'.kb.modifiers = io'.op.m.a[1]]_vars

-----------------------------------------------------------------------------
(* SpecRelink: SpecLink with a host that connects again after its          *)
(* purespice_disconnect.                                                   *)

LkReconnect ==
  /\ io.op.name = "disconnect"
  /\ \E how \in {"OK", "LINKERR"} :
       Call(purespice_connect(
              Begin(Op("connect", "scMain", NoMsg), [NoFail EXCEPT !.link = <<how>>]),
              FALSE))

SpecRelink == Init /\ [][NextLink \/ LkReconnect]_vars

\* C29: every link message written in the last operation carries the
\* connection_id 0 when it is for the Main channel, also in a
\* purespice_connect that follows a session and its purespice_disconnect,
\* and the session_id of the peer's MSG_MAIN_INIT when it is for the Inputs
\* or the Playback channel.
C29_ConnectionId ==
  \A i \in 1 .. Len(io.links) :
    io.links[i].how # "NOCONNECT"
      => io.links[i].id = IF io.links[i].ch = "scMain" THEN 0
                          ELSE MsgMainInit(0, 0).a[1]

-----------------------------------------------------------------------------
(* Claims on the declared size of an agent message, under Spec.            *)

\* C30: a call of the API that starts an agent message (grab, release,
\* clipboardDataStart) puts a packet on the queue only when the message
\* started before it is complete, that is when no declared byte is still
\* missing (spice.agentMsg = 0); so the payload written between two headers
\* sums to the size the first declared.
C30_DeclaredSize ==
  [][(/\ io'.op.name \in {"clipboardGrab", "clipboardRelease", "clipboardDataStart"}
      /\ hist'.enq > hist.enq)
       => spice.agentMsg = 0]_vars

-----------------------------------------------------------------------------
(* Claims on the agent's grab of the clipboard, under SpecClip.            *)

\* C31: when a VD_AGENT_CLIPBOARD_GRAB with a type list that is not empty
\* has been handled, spice.cbType is the PSDataType of types[0],
\* cbAgentGrabbed is set and cbClientGrabbed is cleared; the notice callback,
\* if the host registered one, was called once with that type when
\* VD_AGENT_CAP_CLIPBOARD_SELECTION is not agreed, and was not called when it
\* is.
C31_AgentGrab ==
  [][(/\ io'.op.name = "process"
      /\ io'.op.ch = "scMain"
      /\ io'.op.m.type = "MAIN_AGENT_DATA"
      /\ spice.sc["scMain"].initDone
      /\ spice.hasAgent
      /\ spice.cbRemain = 0
      /\ io'.op.m.a[2] = VD_AGENT_CLIPBOARD_GRAB
      /\ io'.op.m.data # <<>>
      /\ io'.st = "OK")
       => LET type == CASE io'.op.m.data[1] = VD_AGENT_CLIPBOARD_UTF8_TEXT -> "TEXT"
                        [] io'.op.m.data[1] = VD_AGENT_CLIPBOARD_IMAGE_PNG -> "PNG"
                        [] OTHER -> "NONE"
          IN /\ spice'.cbType = type
             /\ spice'.cbAgentGrabbed
             /\ ~spice'.cbClientGrabbed
             /\ io'.calls = IF ~spice.cbSelection /\ spice.cbNoticeFn
                            THEN <<[type |-> type, data |-> <<>>, fn |-> "cbNoticeFn"]>>
                            ELSE <<>>]_vars

\* the guest has grabbed a clipboard of PNG from a host that held its own
\* grab, and the host was told
C31_Witness ==
  /\ io.op.name = "process"
  /\ io.op.m.type = "MAIN_AGENT_DATA"
  /\ Len(io.op.m.a) >= 2
  /\ io.op.m.a[2] = VD_AGENT_CLIPBOARD_GRAB
  /\ io.st = "OK"
  /\ hist.enq > 2
  /\ spice.cbType = "PNG"
  /\ spice.cbAgentGrabbed /\ ~spice.cbClientGrabbed
  /\ Len(io.calls) = 1

\* the same under the selection capability: the host was not told
C31_WitnessSelection ==
  /\ io.op.name = "process"
  /\ Len(io.op.m.a) >= 2
  /\ io.op.m.a[2] = VD_AGENT_CLIPBOARD_GRAB
  /\ io.st = "OK"
  /\ spice.cbSelection /\ spice.cbNoticeFn
  /\ spice.cbType = "PNG"
  /\ io.calls = <<>>

-----------------------------------------------------------------------------
(* SpecAgentFrames: SpecClip with an agent whose frames do not end where   *)
(* its messages end.                                                       *)

\* VD_AGENT_MOUSE_STATE and VD_AGENT_MONITORS_CONFIG, which the client has
\* no arm for
OtherAgentTypes == {1, 2}

\* the last frame of a clipboard carries a byte more than is still due
FrMoreExtra ==
  /\ spice.hasAgent
  /\ hist.srv.active
  /\ spice.cbRemain > 0
  /\ Dispatch("scMain",
              MsgClipboardMore(Slice(Len(hist.srv.sent), spice.cbRemain + 1)),
              NoFail)

\* a message of a type unknown to the client, of `size` bytes, of which the
\* frame carries `body`
FrUnknown ==
  /\ spice.hasAgent
  /\ ~hist.srv.active
  /\ \E type \in OtherAgentTypes, size \in {0, 4, 8}, body \in {0, 4, 8} :
       Dispatch("scMain", MsgAgentData(type, size, 0, 0, <<>>, body), NoFail)

SpecAgentFrames == Init /\ [][NextClip \/ FrMoreExtra \/ FrUnknown]_vars

\* C32: when the Main channel has handled a MSG_MAIN_AGENT_DATA with
\* PS_STATUS_OK, the bytes read from the socket for it are the header.size
\* bytes of its body, no more and no fewer.
C32_FrameConsumed ==
  [][(/\ io'.op.name = "process"
      /\ io'.op.ch = "scMain"
      /\ io'.op.m.type = "MAIN_AGENT_DATA"
      /\ spice.sc["scMain"].initDone
      /\ io'.st = "OK")
       => io'.consumed = io'.op.m.size]_vars

-----------------------------------------------------------------------------
(* SpecAgentRace: the threads that produce agent messages.  A message is   *)
(* produced by purespice_agentStartMsg and then purespice_agentWriteMsg;   *)
(* each runs whole, and the threads interleave between the two.            *)

\* the messages a thread may produce: the thread of purespice_process
\* answers a request for the capabilities, a thread of the host grabs the
\* clipboard or starts to send it; size is the size declared, wsize the
\* bytes written right after the header
AgentMessages(t) ==
  IF t = "process"
  THEN {[type |-> VD_AGENT_ANNOUNCE_CAPABILITIES, size |-> capsSize, wsize |-> capsSize]}
  ELSE {[type |-> VD_AGENT_CLIPBOARD_GRAB, size |-> SIZEOF_uint32, wsize |-> SIZEOF_uint32],
        [type |-> VD_AGENT_CLIPBOARD, size |-> SIZEOF_uint32 + 3000,
         wsize |-> SIZEOF_uint32]}

\* a step of a thread ends: what it sent is observed, the calls of the host
\* are not counted
ThrCommit(s) == Commit([End(s) EXCEPT !.hist.calls = hist.calls])

\* a thread calls purespice_agentStartMsg
AgStart(t) ==
  /\ io.thr[t] = Idle
  /\ io.fault = "-"
  /\ spice.hasAgent
  /\ \E msg \in AgentMessages(t) :
       ThrCommit(
         [purespice_agentStartMsg(
            Begin(Op("agentStartMsg", "scMain", Msg("-", 0, <<msg.type, msg.size>>, <<>>)),
                  NoFail),
            msg.type, msg.size)
          EXCEPT !.io.thr[t] = [size |-> msg.size, ch |-> "scMain",
                                pc |-> "started", todo |-> <<msg.wsize>>,
                                ids |-> <<hist.enq + 1>>]])

\* and then purespice_agentWriteMsg
AgWrite(t) ==
  /\ io.thr[t].pc = "started"
  /\ io.fault = "-"
  /\ LET s == purespice_agentWriteMsg(
                Begin(Op("agentWriteMsg", "scMain",
                         Msg("-", 0, io.thr[t].todo, <<>>)), NoFail),
                io.thr[t].todo[1])
     IN ThrCommit([s EXCEPT !.io.thr[t].pc = "done",
                            !.io.thr[t].ids =
                               @ \o [i \in 1 .. s.hist.enq - hist.enq |-> hist.enq + i]])

NextAgentRace ==
  \/ TxConnect
  \/ TxMainInit
  \/ TxAgentConnected
  \/ \E t \in Threads : AgStart(t)
  \/ \E t \in Threads : AgWrite(t)

SpecAgentRace == Init /\ [][NextAgentRace]_vars

\* C33: the packets of one agent message, its VDAgentMessage header and its
\* payload, are next to each other on the agent queue (their identities,
\* given at the push, are consecutive), and between the header and the
\* payload of a thread's message spice.agentMsg is what that message still
\* has to write; no payload is refused by assert(size <= spice.agentMsg).
C33_MessagesAdjacent ==
  /\ io.fault # "assert(size <= spice.agentMsg)"
  /\ \A t \in Threads :
       /\ io.thr[t].pc = "started" => spice.agentMsg = io.thr[t].size
       /\ io.thr[t].pc = "done"
            => \A i \in 1 .. Len(io.thr[t].ids) - 1 :
                 io.thr[t].ids[i + 1] = io.thr[t].ids[i] + 1

-----------------------------------------------------------------------------
(* SpecMotionRace: two threads of the host in purespice_mouseMotion with   *)
(* motions of several packets.  A call sizes the motion buffer and takes   *)
(* its address, fills it under the mouse lock, and sends it under the      *)
(* write lock of the Inputs channel; the threads interleave between these. *)

\* motions of two and of three packets
Motions == {<<200, 0>>, <<-128, 1>>, <<300, -300>>}

HostThreads == {"host1", "host2"}

\* the motion buffer as a thread holds it in its local `buffer`: malloc
\* gives a new one whenever a longer one is needed, so until
\* purespice_disconnect frees it a buffer is known by its size
BufferOf(s) == [size |-> s.spice.motionBufferSize, alloc |-> s.spice.motionBufferAlloc]

\* `if (bufferSize > spice.motionBufferSize) ...; buffer = spice.motionBuffer`
MmCall(t) ==
  /\ t \in HostThreads
  /\ io.thr[t] = Idle
  /\ io.fault = "-"
  /\ spice.sc["scInputs"].connected
  /\ \E xy \in Motions :
       LET delta == IF Abs(xy[1]) > Abs(xy[2]) THEN Abs(xy[1]) ELSE Abs(xy[2])
           msgs  == (delta + (MOTION_MAX - 1)) \div MOTION_MAX
           s0 == Begin(Op("mouseMotion", "scInputs", Msg("-", 0, xy, <<>>)), NoFail)
           s1 == IF msgs > s0.spice.motionBufferSize
                 THEN [s0 EXCEPT !.spice.motionBufferAlloc = TRUE,
                                 !.spice.motionBufferSize = msgs,
                                 !.spice.motionBuffer = <<>>]
                 ELSE s0
       IN ThrCommit([s1 EXCEPT !.io.thr[t] =
                       [ch |-> "scInputs", pc |-> "sized", todo |-> <<>>,
                        msgs |-> msgs, buffer |-> BufferOf(s1), xy |-> xy]])

\* the loop that fills the buffer, between SPICE_LOCK and SPICE_UNLOCK of
\* the mouse lock; a buffer freed meanwhile is written all the same
MmFill(t) ==
  /\ t \in HostThreads
  /\ io.thr[t].pc = "sized"
  /\ ~spice.mouse.lock
  /\ LET me == io.thr[t]
         s0 == Begin(Op("mouseMotion", "scInputs", Msg("-", 0, me.xy, <<>>)), NoFail)
         own == MotionFill(me.xy[1], me.xy[2], spice.mouse.buttonState)
         s1 == [MOUSE_UNLOCK(MOUSE_LOCK(s0)) EXCEPT
                  !.spice.mouse.sentCount = @ + me.msgs,
                  !.spice.motionBuffer = IF me.buffer = BufferOf(s0) THEN own ELSE @,
                  !.io.fault = IF me.buffer # BufferOf(s0) \/ ~me.buffer.alloc
                               THEN "motionBuffer written after free" ELSE @]
     IN ThrCommit([s1 EXCEPT !.io.thr[t].pc = "filled", !.io.thr[t].todo = own])

\* send(2) of the buffer under the write lock of the Inputs channel; what a
\* freed buffer holds is anything
MmSend(t) ==
  /\ t \in HostThreads
  /\ io.thr[t].pc = "filled"
  /\ SpinFree(Cur, "scInputs")
  /\ LET me == io.thr[t]
         s0 == Begin(Op("mouseMotion", "scInputs", Msg("-", 0, me.xy, <<>>)), NoFail)
     IN \E frames \in IF me.buffer = BufferOf(s0) THEN {spice.motionBuffer}
                      ELSE {me.todo, spice.motionBuffer, <<>>} :
          ThrCommit([SPICE_UNLOCK(send(SPICE_LOCK(s0, "scInputs"), "scInputs", frames),
                                  "scInputs")
                       EXCEPT !.io.thr[t].pc = "sent",
                              !.io.thr[t].buffer = frames])

NextMotionRace ==
  \/ InConnect
  \/ InMainInit
  \/ InChannelsList
  \/ InInputsInit
  \/ \E t \in HostThreads : MmCall(t)
  \/ \E t \in HostThreads : MmFill(t)
  \/ \E t \in HostThreads : MmSend(t)

SpecMotionRace == Init /\ [][NextMotionRace]_vars

\* C34: a purespice_mouseMotion of several packets that has sent its buffer
\* has sent the sub-motions it computed for its own (x, y), and has written
\* and read no buffer that another call had freed.
C34_OwnMotions ==
  /\ io.fault = "-"
  /\ \A t \in HostThreads :
       io.thr[t].pc = "sent" => io.thr[t].buffer = io.thr[t].todo

-----------------------------------------------------------------------------
(* SpecLinkRace: the link handshake of the Inputs channel, which the       *)
(* thread of purespice_process runs for MSG_MAIN_CHANNELS_LIST, in two     *)
(* steps: up to `channel->connected = true`, and from the ConnectPacket to *)
(* the link result; a thread of the host calls an injector in between.     *)

\* socket(2) and connect(2) have succeeded
LnBegin ==
  /\ io.thr["process"] = Idle
  /\ io.fault = "-"
  /\ spice.sc["scMain"].initDone
  /\ ~spice.sc["scInputs"].connected
  /\ "scInputs" \notin io.open
  /\ ThrCommit(
       [Begin(Op("connectChannel", "scInputs", NoMsg), NoFail) EXCEPT
          !.io.open = @ \cup {"scInputs"},
          !.io.shutWr = @ \ {"scInputs"},
          !.spice.sc["scInputs"].initDone = FALSE,
          !.spice.sc["scInputs"].ackFrequency = 0,
          !.spice.sc["scInputs"].ackCount = 0,
          !.spice.sc["scInputs"].lock = FALSE,
          !.spice.mouse.lock = FALSE,
          !.spice.sc["scInputs"].connected = TRUE,
          !.io.thr["process"] = [ch |-> "scInputs", pc |-> "linking", todo |-> <<>>]])

\* the handshake ends, with SPICE_LINK_ERR_OK or with an error
LnEnd ==
  /\ io.thr["process"].pc = "linking"
  /\ \E how \in {"OK", "LINKERR"} :
       LET s0 == Begin(Op("connectChannel", "scInputs", NoMsg), NoFail)
           s1 == [s0 EXCEPT !.io.links =
                     Append(@, [ch |-> "scInputs", how |-> how,
                                id |-> s0.spice.sessionID])]
       IN ThrCommit(
            [(IF how = "OK"
              THEN [s1 EXCEPT !.io.epoll = @ \cup {"scInputs"},
                              !.spice.sc["scInputs"].ready = TRUE]
              ELSE [purespice_disconnectChannel(s1, "scInputs") EXCEPT !.io.st = "ERROR"])
             EXCEPT !.io.thr["process"] = Idle])

\* an injector called by a thread of the host
LnInject ==
  \/ \E code \in {30, 328} :
       Call(purespice_keyDown(Begin(Op("keyDown", "scInputs",
              Msg("-", 0, <<code>>, <<>>)), NoFail), code))
  \/ \E xy \in Motions \cup {<<1, 0>>} :
       Call(purespice_mouseMotion(Begin(Op("mouseMotion", "scInputs",
              Msg("-", 0, xy, <<>>)), NoFail), xy[1], xy[2]))
  \/ \E b \in Buttons :
       Call(purespice_mousePress(Begin(Op("mousePress", "scInputs",
              Msg("-", 0, <<b>>, <<>>)), NoFail), b))

NextLinkRace ==
  \/ InConnect
  \/ InMainInit
  \/ LnBegin
  \/ LnEnd
  \/ LnInject

SpecLinkRace == Init /\ [][NextLinkRace]_vars

\* C35: an injector called while the thread of purespice_process is inside
\* the link handshake of the Inputs channel returns false and writes
\* nothing to the socket.
C35_NoFrameBeforeLink ==
  [][(io'.op.name \in Writers /\ io.thr["process"].pc = "linking")
       => ~io'.rv /\ io'.sends = <<>>]_vars

-----------------------------------------------------------------------------
(* SpecMouseRace: two threads of the host in the mouse injectors.  A call  *)
(* takes its snapshot of buttonState between SPICE_LOCK and SPICE_UNLOCK   *)
(* of the mouse lock, then sends its packet with SPICE_SEND_PACKET; the    *)
(* threads interleave between the two.                                     *)

\* the packet a call builds under the mouse lock, and buttonState after it
MouseCalls(s) ==
  {[state |-> BitOr(s.spice.mouse.buttonState, ButtonMask(b)),
    frame |-> Frame("MSGC_INPUTS_MOUSE_PRESS",
                    <<b, BitOr(s.spice.mouse.buttonState, ButtonMask(b))>>)]
     : b \in Buttons}
  \cup
  {[state |-> s.spice.mouse.buttonState - (IF HasBit(s.spice.mouse.buttonState, ButtonMask(b))
                                           THEN ButtonMask(b) ELSE 0),
    frame |-> Frame("MSGC_INPUTS_MOUSE_RELEASE",
                    <<b, s.spice.mouse.buttonState
                           - (IF HasBit(s.spice.mouse.buttonState, ButtonMask(b))
                              THEN ButtonMask(b) ELSE 0)>>)]
     : b \in Buttons}
  \cup
  {[state |-> s.spice.mouse.buttonState,
    frame |-> Frame("MSGC_INPUTS_MOUSE_MOTION", <<1, 0, s.spice.mouse.buttonState>>)],
   [state |-> s.spice.mouse.buttonState,
    frame |-> Frame("MSGC_INPUTS_MOUSE_POSITION",
                    <<640, 480, s.spice.mouse.buttonState, 0>>)]}

\* button_state is the last field of a press, a release and a motion, and
\* the third of a position
ButtonStateOf(frame) ==
  IF frame.type = "MSGC_INPUTS_MOUSE_POSITION" THEN frame.f[3] ELSE frame.f[Len(frame.f)]

\* the call up to SPICE_UNLOCK(spice.mouse.lock)
MbSnapshot(t) ==
  /\ t \in HostThreads
  /\ io.thr[t] = Idle
  /\ io.fault = "-"
  /\ hist.sections < MaxSections
  /\ spice.sc["scInputs"].initDone
  /\ ~spice.mouse.lock
  /\ \E call \in MouseCalls(Cur) :
       Commit([MOUSE_UNLOCK(MOUSE_LOCK(Cur)) EXCEPT
                 !.spice.mouse.buttonState = call.state,
                 !.spice.mouse.sentCount =
                    IF call.frame.type \in {"MSGC_INPUTS_MOUSE_MOTION",
                                            "MSGC_INPUTS_MOUSE_POSITION"}
                    THEN @ + 1 ELSE @,
                 !.io.sends = IF \A u \in HostThreads : io.thr[u] = Idle THEN <<>> ELSE @,
                 !.io.thr[t] = [ch |-> "scInputs", pc |-> "snapshot",
                                todo |-> <<call.frame>>],
                 !.hist.sections = @ + 1])

\* its SPICE_SEND_PACKET
MbSend(t) ==
  /\ t \in HostThreads
  /\ io.thr[t].pc = "snapshot"
  /\ SpinFree(Cur, "scInputs")
  /\ Commit([SPICE_SEND_PACKET(Cur, "scInputs", io.thr[t].todo[1])
               EXCEPT !.io.thr[t] = Idle])

NextMouseRace ==
  \/ InConnect
  \/ InMainInit
  \/ InChannelsList
  \/ InInputsInit
  \/ \E t \in HostThreads : MbSnapshot(t)
  \/ \E t \in HostThreads : MbSend(t)

SpecMouseRace == Init /\ [][NextMouseRace]_vars

\* C36: once the concurrent calls of the mouse injectors have all returned,
\* the button_state of the last packet they put on the wire of the Inputs
\* channel is spice.mouse.buttonState.
C36_LastButtonState ==
  LET wire == Wire(io.sends, "scInputs") IN
  (/\ \A t \in HostThreads : io.thr[t] = Idle
   /\ hist.sections > 0
   /\ wire # <<>>)
  => ButtonStateOf(wire[Len(wire)]) = spice.mouse.buttonState

-----------------------------------------------------------------------------
(* A claim on the ack counter, under SpecAck.                              *)

\* C37: between two messages, a channel whose ackFrequency is not 0 has
\* counted no more messages than its ackFrequency, also when a SET_ACK has
\* just lowered the window.
C37_AckCountBounded ==
  \A c \in Channels :
    spice.sc[c].ackFrequency > 0 => spice.sc[c].ackCount <= spice.sc[c].ackFrequency

-----------------------------------------------------------------------------
(* A claim on the existence of the agent TX queue, under Spec.             *)

\* C38: a MSG_MAIN_AGENT_TOKEN never brings the drain of the agent TX queue
\* to a queue that does not exist, also when no agent has connected in this
\* session.
C38_QueueExists ==
  (io.op.name = "process" /\ io.op.m.type = "MAIN_AGENT_TOKEN")
  => io.fault # "agentQueue is NULL"

-----------------------------------------------------------------------------
(* SpecLockFair: the writers one lock step at a time.  A call is the list  *)
(* of the lock, send and unlock steps its path through the code makes, and *)
(* a thread runs its list from the head; SPICE_LOCK spins, so its step     *)
(* waits for the flag to be clear.                                         *)

Locks == Channels \cup {"mouse"}

LockStep(do, l) == [do |-> do, l |-> l]

\* SPICE_SEND_PACKET: SPICE_LOCK, send, SPICE_UNLOCK
SendPacketSteps(c) ==
  <<LockStep("lock", c), LockStep("send", c), LockStep("unlock", c)>>

\* purespice_agentProcessQueue, two packets sent
DrainSteps ==
  <<LockStep("lock", "scMain"), LockStep("send", "scMain"),
    LockStep("send", "scMain"), LockStep("unlock", "scMain")>>

\* a bug: the failed send returns with the lock held
DrainFailedSteps_Held ==
  <<LockStep("lock", "scMain"), LockStep("sendFails", "scMain")>>

\* purespice_agentProcessQueue, the send of the first packet fails: the
\* packet is freed and the lock released before the return
DrainFailedSteps ==
  <<LockStep("lock", "scMain"), LockStep("sendFails", "scMain"),
    LockStep("unlock", "scMain")>>

\* purespice_disconnectChannel
DisconnectChannelSteps(s, c) ==
  IF ~s.spice.sc[c].connected THEN <<>>
  ELSE (IF s.spice.sc[c].ready THEN SendPacketSteps(c) ELSE <<>>)
       \o <<LockStep("shutdown", c)>>

\* purespice_disconnect
DisconnectSteps(s) ==
  DisconnectChannelSteps(s, "scInputs") \o DisconnectChannelSteps(s, "scMain")
  \o <<LockStep("close", "-")>>

\* the paths a thread can take, each with the channel that has to be
\* connected for the call to reach its first lock.
\* The thread of purespice_process acknowledges a message on the channel it
\* reads, drains the agent queue on MSG_MAIN_AGENT_TOKEN, and disconnects
\* when a send of the drain fails; a host thread sends a key, a coalesced
\* motion or a button press, or puts an agent message on the queue and
\* drains it.
LockPaths(s, t) ==
  IF t = "process"
  THEN {[name |-> "ack", ch |-> c, agent |-> FALSE, steps |-> SendPacketSteps(c)] :
          c \in {"scMain", "scInputs"}}
       \cup {[name |-> "token", ch |-> "scMain", agent |-> TRUE, steps |-> DrainSteps],
             [name |-> "tokenFailed", ch |-> "scMain", agent |-> TRUE,
              steps |-> DrainFailedSteps \o DisconnectSteps(s)]}
  ELSE {[name |-> "keyDown", ch |-> "scInputs", agent |-> FALSE,
         steps |-> SendPacketSteps("scInputs")],
        [name |-> "mouseMotion", ch |-> "scInputs", agent |-> FALSE,
         steps |-> <<LockStep("lock", "mouse"), LockStep("unlock", "mouse"),
                     LockStep("lock", "scInputs"), LockStep("send", "scInputs"),
                     LockStep("unlock", "scInputs")>>],
        [name |-> "mousePress", ch |-> "scInputs", agent |-> FALSE,
         steps |-> <<LockStep("lock", "mouse"), LockStep("unlock", "mouse")>>
                   \o SendPacketSteps("scInputs")],
        [name |-> "clipboardGrab", ch |-> "scMain", agent |-> TRUE, steps |-> DrainSteps],
        [name |-> "clipboardGrabFailed", ch |-> "scMain", agent |-> TRUE,
         steps |-> DrainFailedSteps]}

LockFree(s, l) == IF l = "mouse" THEN ~s.spice.mouse.lock ELSE ~s.spice.sc[l].lock

\* the locks thread t holds
Held(t) == IF io.thr[t].pc = "idle" THEN {} ELSE io.thr[t].held

\* thread t is at the step do of its path
AtStep(t, dos) ==
  /\ io.thr[t].pc = "run"
  /\ io.thr[t].todo # <<>>
  /\ Head(io.thr[t].todo).do \in dos

\* a thread makes a call; the calls that drain the agent queue need the
\* queue and the agent
LkCall(t) ==
  /\ io.thr[t] = Idle
  /\ io.fault = "-"
  /\ \E p \in LockPaths(Cur, t) :
       /\ spice.sc[p.ch].connected /\ spice.sc[p.ch].initDone
       /\ p.agent => (spice.agentQueueAlloc /\ spice.hasAgent)
       /\ Commit([Cur EXCEPT !.io.thr[t] =
                    [ch |-> p.name, pc |-> "run", todo |-> p.steps, held |-> {}]])

\* SPICE_LOCK returns: the test-and-set found the flag clear
LkAcquire(t) ==
  /\ AtStep(t, {"lock"})
  /\ LET l == Head(io.thr[t].todo).l IN
       /\ LockFree(Cur, l)
       /\ Commit([(IF l = "mouse" THEN MOUSE_LOCK(Cur) ELSE SPICE_LOCK(Cur, l))
                    EXCEPT !.io.thr[t].todo = Tail(@),
                           !.io.thr[t].held = @ \cup {l}])

\* send(2) returns, with the whole packet written or not
LkSend(t) ==
  /\ AtStep(t, {"send", "sendFails"})
  /\ Commit([Cur EXCEPT !.io.thr[t].todo = Tail(@)])

\* SPICE_UNLOCK
LkRelease(t) ==
  /\ AtStep(t, {"unlock"})
  /\ LET l == Head(io.thr[t].todo).l IN
       Commit([(IF l = "mouse" THEN MOUSE_UNLOCK(Cur) ELSE SPICE_UNLOCK(Cur, l))
                 EXCEPT !.io.thr[t].todo = Tail(@),
                        !.io.thr[t].held = @ \ {l}])

\* the end of purespice_disconnectChannel: EPOLL_CTL_DEL and shutdown(SHUT_WR)
LkShutdown(t) ==
  /\ AtStep(t, {"shutdown"})
  /\ LET c == Head(io.thr[t].todo).l IN
       Commit([Cur EXCEPT !.io.epoll = @ \ {c}, !.io.shutWr = @ \cup {c},
                          !.io.thr[t].todo = Tail(@)])

\* the end of purespice_disconnect: the epoll handle is closed, the motion
\* buffer and the agent queue are freed
LkClose(t) ==
  /\ AtStep(t, {"close"})
  /\ Commit([Cur EXCEPT !.io.epoll = {},
                        !.spice.motionBufferAlloc = FALSE,
                        !.spice.agentQueue = <<>>,
                        !.spice.agentQueueAlloc = FALSE,
                        !.spice.hasAgent = FALSE,
                        !.io.thr[t].todo = Tail(@)])

\* the call returns
LkReturn(t) ==
  /\ io.thr[t].pc = "run"
  /\ io.thr[t].todo = <<>>
  /\ io.thr[t].held = {}
  /\ Commit([Cur EXCEPT !.io.thr[t] = Idle])

NextLockFair ==
  \/ LockConnect
  \/ LockMainInit
  \/ LockChannelsList
  \/ LockInputsInit
  \/ \E t \in Threads : LkCall(t)
  \/ \E t \in Threads : LkAcquire(t)
  \/ \E t \in Threads : LkSend(t)
  \/ \E t \in Threads : LkRelease(t)
  \/ \E t \in Threads : LkShutdown(t)
  \/ \E t \in Threads : LkClose(t)
  \/ \E t \in Threads : LkReturn(t)

\* A thread that has entered a call is scheduled until the call returns, and
\* a spinning SPICE_LOCK repeats its test-and-set without end: of the
\* moments at which the flag is clear, one is met by a test of the spinner.
\* No call has to be made.
LockFairness ==
  \A t \in Threads :
    /\ SF_vars(LkAcquire(t))
    /\ WF_vars(LkSend(t))
    /\ WF_vars(LkRelease(t))
    /\ WF_vars(LkShutdown(t))
    /\ WF_vars(LkClose(t))
    /\ WF_vars(LkReturn(t))

SpecLockFair == Init /\ [][NextLockFair]_vars /\ LockFairness

\* thread t spins on lock l
Waits(t, l) == AtStep(t, {"lock"}) /\ Head(io.thr[t].todo).l = l

-----------------------------------------------------------------------------
(* SpecAgentShort: an agent whose clipboard messages declare a size that   *)
(* is smaller than the prefix the parser strips from them.                 *)

ClipboardMessages ==
  {VD_AGENT_CLIPBOARD, VD_AGENT_CLIPBOARD_REQUEST,
   VD_AGENT_CLIPBOARD_GRAB, VD_AGENT_CLIPBOARD_RELEASE}

\* the bytes purespice_agentProcess strips from the body of a clipboard
\* message before it uses msg.size as a length
PrefixOf(type, selection) ==
  (IF selection THEN SIZEOF_Selection ELSE 0)
  + (IF type \in {VD_AGENT_CLIPBOARD, VD_AGENT_CLIPBOARD_REQUEST} THEN SIZEOF_uint32 ELSE 0)

\* a clipboard message that declares `size` bytes, fewer than its prefix,
\* in a frame that carries the prefix and k bytes more after the
\* VDAgentMessage header
FrShort ==
  /\ spice.hasAgent
  /\ spice.cbRemain = 0
  /\ \E type \in ClipboardMessages, size \in {0, 3, 4}, k \in {0, 2} :
       /\ size < PrefixOf(type, spice.cbSelection)
       /\ Dispatch("scMain",
                   MsgAgentData(type, size, VD_AGENT_CLIPBOARD_UTF8_TEXT, 0, Slice(0, k),
                                PrefixOf(type, spice.cbSelection) + k),
                   NoFail)

NextAgentShort ==
  \/ ClipConnect
  \/ ClipSetCb
  \/ ClipMainInit
  \/ ClipAgentConnected
  \/ ClipAnnounce
  \/ ClipGrab
  \/ FrShort

SpecAgentShort == Init /\ [][NextAgentShort]_vars

\* C40: a VD_AGENT_CLIPBOARD, CLIPBOARD_REQUEST, CLIPBOARD_GRAB or
\* CLIPBOARD_RELEASE message whose declared size is smaller than the prefix
\* the parser strips is answered with PS_STATUS_ERROR, and the bytes the
\* reassembler then expects are no more than the size declared.
C40_ShortMessage ==
  [][(/\ io'.op.name = "process"
      /\ io'.op.ch = "scMain"
      /\ io'.op.m.type = "MAIN_AGENT_DATA"
      /\ spice.sc["scMain"].initDone
      /\ spice.hasAgent
      /\ spice.cbRemain = 0
      /\ io'.op.m.a[2] \in ClipboardMessages
      /\ io'.op.m.a[3] < PrefixOf(io'.op.m.a[2], spice.cbSelection))
       => (/\ io'.st = "ERROR"
           /\ spice'.cbRemain <= io'.op.m.a[3])]_vars

====
